---- MODULE Spec2Model ----
(***************************************************************************)
(* Model of the dicom-service monitoring / search / safety state machine:  *)
(* DicomMonitor (dicom_monitor.py), WindowMonitor (window_monitor.py) and  *)
(* the tick loop of dicom_service.py.                                      *)
(*                                                                         *)
(* Python strings are modelled as sequences of one-character strings, so   *)
(* that splitting, upper-casing, substring containment and the accession   *)
(* regular expressions are computed rather than assumed.                   *)
(*                                                                         *)
(* Specifications:                                                         *)
(*   Spec        the handlers run one at a time, the file system works     *)
(*   SpecConc    the watchdog thread and the tick, statement by statement  *)
(*   SpecTick    Spec with a record of the reset made in the current tick  *)
(*   SpecPublish _write_state statement by statement, with OSError, kill   *)
(*   SpecFault   the tick loop with _write_state and the log read failing  *)
(*   SpecNormalize  _extract_core_acc applied once and twice              *)
(*   SpecCache   _add_to_cache and _try_match on a cache of any capacity   *)
(*   SpecScan    _find_in_recent_folders on listings of the cache dir      *)
(*   SpecParse   _parse_psone_log on logs of a few lines                   *)
(*   SpecExtract _extract_fields on datasets with tags present or missing  *)
(*   SpecWrite   _write_state on records of any keys and values           *)
(*   SpecIdle    the tick loop with a record of what each tick found       *)
(*   SpecLock    _acquire_lock and _release_lock of concurrent processes   *)
(*   SpecStart   main from the configuration to the tick loop              *)
(*   SpecDeadline  the tick loop with a failing publish, log present       *)
(*   SpecEntries the tick loop with studies that have no patient name      *)
(***************************************************************************)
EXTENDS Integers, Sequences, FiniteSets, TLC

\* ----------------------------------------------------------------------
\* Bounds of the model (configuration values scaled down, and the sizes of
\* the environment that is explored).
\* ----------------------------------------------------------------------

\* search_timeout of the configuration, in clock units (default 120 s).
SearchTimeout == 1

\* cache_size of the configuration (default 5).
CacheSize == 1

\* max_scan_folders of the configuration (default 50).
MaxScanFolders == 2

\* Number of study folders that can appear in the cache directory.
MaxFolders == 2

\* Number of times the vendor log is appended to.
MaxLogWrites == 2

\* The clock stops the exploration after this many timer intervals.
MaxTime == 3

\* Longest accession _extract_core_acc is tried on, in characters.
MaxAccLen == 6

\* Largest cache_size the LRU cache is exercised with on its own.
MaxCacheSize == 3

\* Latest modification time of a study folder in the directory scan.
MaxMtime == 2

\* Number of lines of the vendor log _parse_psone_log is tried on.
MaxParseLines == 2

\* Number of service processes that are started.
MaxInstances == 2

\* ----------------------------------------------------------------------
\* Strings
\* ----------------------------------------------------------------------

EmptyStr == << >>

\* A control character (one of U+0000..U+001F).
CTL == "\n"

Digits == {"0", "1", "2", "3", "4", "5", "6", "7", "8", "9"}

UpperLetters ==
  {"A", "B", "C", "D", "E", "F", "G", "H", "I", "J", "K", "L", "M",
   "N", "O", "P", "Q", "R", "S", "T", "U", "V", "W", "X", "Y", "Z"}

LowerLetters ==
  {"a", "b", "c", "d", "e", "f", "g", "h", "i", "j", "k", "l", "m",
   "n", "o", "p", "q", "r", "s", "t", "u", "v", "w", "x", "y", "z"}

\* The alphabet in order, lower case and upper case.
LowerAlphabet ==
  <<"a", "b", "c", "d", "e", "f", "g", "h", "i", "j", "k", "l", "m",
    "n", "o", "p", "q", "r", "s", "t", "u", "v", "w", "x", "y", "z">>

UpperAlphabet ==
  <<"A", "B", "C", "D", "E", "F", "G", "H", "I", "J", "K", "L", "M",
    "N", "O", "P", "Q", "R", "S", "T", "U", "V", "W", "X", "Y", "Z">>

\* The characters the regular expressions' \w matches.
WordChars == UpperLetters \cup LowerLetters \cup Digits \cup {"_"}

\* str.upper() on one character: a lower-case letter maps to its capital,
\* everything else is unchanged.
UpperChar(c) ==
  IF c \in LowerLetters
    THEN UpperAlphabet[CHOOSE i \in 1..26 : LowerAlphabet[i] = c]
    ELSE c

\* str.upper()
Upper(s) == [i \in 1..Len(s) |-> UpperChar(s[i])]

\* a[i:] of Python with i counted from 1.
Drop(s, n) == SubSeq(s, n + 1, Len(s))

\* a[:n]
Take(s, n) == SubSeq(s, 1, n)

\* needle occurs in hay at offset i (0-based), hay[i:i+len(needle)] == needle
OccursAt(needle, hay, i) ==
  /\ i >= 0
  /\ i + Len(needle) <= Len(hay)
  /\ SubSeq(hay, i + 1, i + Len(needle)) = needle

\* Python's  needle in hay  for strings; the empty needle is in every string.
Contains(needle, hay) ==
  \E i \in 0..Len(hay) : OccursAt(needle, hay, i)

\* Positions (1-based) of the character c in s.
PositionsOf(c, s) == {i \in 1..Len(s) : s[i] = c}

Min(S) == CHOOSE x \in S : \A y \in S : x <= y

Max(S) == CHOOSE x \in S : \A y \in S : x >= y

\* _extract_last_name: the text before the first "^" ('' for '' and None).
ExtractLastName(full_name) ==
  IF full_name = EmptyStr THEN EmptyStr
  ELSE IF PositionsOf("^", full_name) = {} THEN full_name
  ELSE Take(full_name, Min(PositionsOf("^", full_name)) - 1)

\* re.sub(r"[\x00-\x1f]", "", s)
StripControl(s) == SelectSeq(s, LAMBDA c : c /= CTL)

\* str.strip(): leading and trailing blanks removed.
Strip(s) ==
  LET keep == {i \in 1..Len(s) : s[i] /= " "}
  IN IF keep = {} THEN EmptyStr ELSE SubSeq(s, Min(keep), Max(keep))

\* re.search(r"\bword\b", s) for a word made of word characters.
ContainsWord(word, s) ==
  \E i \in 0..Len(s) :
    /\ OccursAt(word, s, i)
    /\ (i = 0 \/ s[i] \notin WordChars)
    /\ (i + Len(word) = Len(s) \/ s[i + Len(word) + 1] \notin WordChars)

\* ----------------------------------------------------------------------
\* Accession normalisation
\* ----------------------------------------------------------------------

\* _CLINICAL_MODALITIES
ClinicalModalities ==
  { <<"C", "T">>, <<"M", "R">>, <<"U", "S">>, <<"D", "X">>, <<"C", "R">>,
    <<"M", "G">>, <<"P", "T">>, <<"N", "M">>, <<"X", "A">> }

\* Python's None, where a dict is expected and where a string is expected
\* (a value that is not a string of characters).
None == [none |-> EmptyStr]

NoneStr == <<"None">>

\* The literal accession placeholder "N/A".
NotAvailable == <<"N", "/", "A">>

\* Ends (1-based index of the last character) of the prefixes of acc that
\* match  ^(.+-(?:CT|MR|US|DX|CR|MG|PT|NM|XA)) : at least one character,
\* a dash, a clinical modality code.
CoreEnds(acc) ==
  {e \in 4..Len(acc) :
     /\ acc[e - 2] = "-"
     /\ SubSeq(acc, e - 1, e) \in ClinicalModalities}

\* Start (1-based index of the "_") of the match of  _\d+$  in acc, or 0.
SplitSuffixStart(acc) ==
  LET starts == {i \in 1..(Len(acc) - 1) :
                   /\ acc[i] = "_"
                   /\ \A j \in (i + 1)..Len(acc) : acc[j] \in Digits}
  IN IF starts = {} THEN 0 ELSE Min(starts)

\* _extract_core_acc: '.+' is greedy, so the match runs to the last
\* "-<modality>"; otherwise one trailing "_<digits>" is removed.
ExtractCoreAcc(acc) ==
  IF acc = NoneStr \/ acc = EmptyStr \/ acc = NotAvailable THEN EmptyStr
  ELSE IF CoreEnds(acc) /= {} THEN Take(acc, Max(CoreEnds(acc)))
  ELSE IF SplitSuffixStart(acc) /= 0 THEN Take(acc, SplitSuffixStart(acc) - 1)
  ELSE acc

\* ----------------------------------------------------------------------
\* Metadata extraction
\* ----------------------------------------------------------------------

\* dict.get(key, "")
Get(d, k) == IF k \in DOMAIN d THEN d[k] ELSE EmptyStr

\* str(getattr(ds, tag, default)).strip()
TagOr(ds, tag, default) == Strip(IF tag \in DOMAIN ds THEN ds[tag] ELSE default)

\* The first (leftmost) match of _ACC_MOD_RE, -(<modality>)(?:[_-]|$), in the
\* accession: the 1-based index of its dash, or 0.
AccModStart(accession) ==
  LET starts == {i \in 1..(Len(accession) - 2) :
                   /\ accession[i] = "-"
                   /\ SubSeq(accession, i + 1, i + 2) \in ClinicalModalities
                   /\ \/ i + 2 = Len(accession)
                      \/ accession[i + 3] \in {"_", "-"}}
  IN IF starts = {} THEN 0 ELSE Min(starts)

\* Step 3 of _resolve_modality: keywords of the upper-cased description,
\* in the order the code tests them; EmptyStr when none is found.
ModalityFromDescription(study_desc) ==
  LET desc == Upper(study_desc)
  IN IF study_desc = EmptyStr \/ study_desc = NotAvailable THEN EmptyStr
     ELSE IF Contains(<<"P", "E", "T">>, desc) \/ Contains(<<"F", "D", "G">>, desc)
       THEN <<"P", "T">>
     ELSE IF ContainsWord(<<"C", "T">>, desc) THEN <<"C", "T">>
     ELSE IF Contains(<<"M", "R", "I">>, desc) \/ ContainsWord(<<"M", "R">>, desc)
       THEN <<"M", "R">>
     ELSE IF \/ Contains(<<"U", "L", "T", "R", "A", "S", "O", "U", "N", "D">>, desc)
             \/ ContainsWord(<<"U", "S">>, desc)
       THEN <<"U", "S">>
     ELSE IF \/ Contains(<<"X", "-", "R", "A", "Y">>, desc)
             \/ Contains(<<"X", "R", "A", "Y">>, desc)
             \/ Contains(<<"R", "A", "D", "I", "O", "G", "R", "A", "P", "H">>, desc)
       THEN <<"D", "X">>
     ELSE IF Contains(<<"M", "A", "M", "M", "O">>, desc) THEN <<"M", "G">>
     ELSE IF \/ Contains(<<"N", "U", "C", "L", "E", "A", "R">>, desc)
             \/ Contains(<<"S", "P", "E", "C", "T">>, desc)
       THEN <<"N", "M">>
     ELSE IF \/ Contains(<<"F", "L", "U", "O", "R", "O">>, desc)
             \/ Contains(<<"A", "N", "G", "I", "O">>, desc)
       THEN <<"X", "A">>
     ELSE EmptyStr

\* _resolve_modality that asks the description before the accession.
ResolveModalityDescriptionFirst(mod_tag, accession, study_desc) ==
  IF mod_tag \in ClinicalModalities THEN mod_tag
  ELSE IF ModalityFromDescription(study_desc) /= EmptyStr
    THEN ModalityFromDescription(study_desc)
  ELSE IF AccModStart(accession) /= 0
    THEN SubSeq(accession, AccModStart(accession) + 1, AccModStart(accession) + 2)
  ELSE mod_tag

\* _resolve_modality: DICOM tag -> accession -> description -> the tag as is.
ResolveModality(mod_tag, accession, study_desc) ==
  IF mod_tag \in ClinicalModalities THEN mod_tag
  ELSE IF AccModStart(accession) /= 0
    THEN SubSeq(accession, AccModStart(accession) + 1, AccModStart(accession) + 2)
  ELSE IF ModalityFromDescription(study_desc) /= EmptyStr
    THEN ModalityFromDescription(study_desc)
  ELSE mod_tag

\* The name _extract_fields gives a dataset without a PatientName tag.
UnknownName == <<"U", "n", "k", "n", "o", "w", "n">>

\* _extract_fields: the demographics dict of a parsed dataset, with the
\* defaults of the missing tags; "_Name" is the internal patient name.
ExtractFields(ds) ==
  LET acc_raw  == TagOr(ds, "AccessionNumber", NotAvailable)
      mod_raw  == TagOr(ds, "Modality", <<"-", "-">>)
      desc_raw == TagOr(ds, "StudyDescription", NotAvailable)
  IN [k \in {"_Name", "Acc", "Sex", "Age", "Mod", "StudyDesc"} |->
        CASE k = "_Name" -> TagOr(ds, "PatientName", UnknownName)
          [] k = "Acc" -> acc_raw
          [] k = "Sex" -> TagOr(ds, "PatientSex", <<"?">>)
          [] k = "Age" -> TagOr(ds, "PatientAge", <<"?">>)
          [] k = "Mod" -> ResolveModality(mod_raw, acc_raw, desc_raw)
          [] OTHER -> desc_raw]

\* ----------------------------------------------------------------------
\* The data the environment supplies: accessions, patient names, window
\* titles, study datasets and lines of the vendor log.
\* ----------------------------------------------------------------------

AccCT == <<"R", "A", "-", "1", "-", "C", "T">>

AccCTSplit == <<"R", "A", "-", "1", "-", "C", "T", "_", "2">>

AccMR == <<"R", "A", "-", "2", "-", "M", "R">>

NameDoe == <<"D", "O", "E", "^", "J">>

NameMcDoe == <<"M", "C", "D", "O", "E", "^", "J">>

NameSmith == <<"S", "M", "I", "T", "H", "^", "J">>

\* Window titles up to the first " - ": the viewer's spelling of a name need
\* not match the DICOM one in case.
TitleDoeJ == <<"d", "o", "e", "^", "j">>

TitleDoeK == <<"d", "o", "e", "^", "k">>

TitleSmith == <<"S", "M", "I", "T", "H", "^", "J">>

\* What get_patient_title can return: '' when no patient window is found.
WindowTitles == {EmptyStr, TitleDoeJ, TitleDoeK, TitleSmith}

\* Parsed datasets of the first DICOM file of a study folder (tag -> value).
DsDoeCT ==
  [PatientName |-> NameDoe, AccessionNumber |-> AccCTSplit,
   PatientSex |-> <<"M">>, PatientAge |-> <<"0", "4", "5", "Y">>,
   Modality |-> <<"C", "T">>, StudyDescription |-> <<"C", "T", CTL, " ", "A">>]

DsSmithCT ==
  [PatientName |-> NameSmith, AccessionNumber |-> AccCT,
   PatientSex |-> <<"F">>, Modality |-> <<"S", "R">>]

DsMcDoeCT ==
  [PatientName |-> NameMcDoe, AccessionNumber |-> AccCT,
   PatientSex |-> <<"F">>, PatientAge |-> <<"3", "0", "Y">>,
   Modality |-> <<"C", "T">>, StudyDescription |-> <<"C", "T">>]

DsDoeMR ==
  [PatientName |-> NameDoe, AccessionNumber |-> AccMR,
   PatientSex |-> <<"M">>, PatientAge |-> <<"0", "4", "5", "Y">>,
   Modality |-> <<"M", "R">>, StudyDescription |-> <<"M", "R", "I">>]

DsNoName ==
  [AccessionNumber |-> AccCT, Modality |-> <<"C", "T">>]

Datasets == {DsDoeCT, DsSmithCT, DsMcDoeCT, DsDoeMR, DsNoName}

\* The studies that arrive in the cache directory while the service runs.
ArrivingDatasets == {DsDoeCT, DsSmithCT, DsMcDoeCT, DsDoeMR}

\* The token "SingleAccession" of the vendor log.
SingleAccession ==
  <<"S", "i", "n", "g", "l", "e", "A", "c", "c", "e", "s", "s", "i", "o", "n">>

\* Lines of the vendor log, each already split into its fields.
LineSingleCT == <<SingleAccession, AccCTSplit>>

LinePatternMR == <<<<"o", "p", "e", "n">>, AccMR>>

LineDash == <<SingleAccession, <<"-">>>>

LogLines == {LineSingleCT, LinePatternMR, LineDash}

\* The lines PowerScribe appends while the service runs.
AppendedLines == {LineSingleCT, LinePatternMR}

\* The absence of a file.
NoFile == [nofile |-> EmptyStr]

\* The empty JSON object {}.
EmptyDoc == [k \in {} |-> EmptyStr]

\* ----------------------------------------------------------------------
\* State
\* ----------------------------------------------------------------------

VARIABLES
  search_active,       \* DicomMonitor.search_active
  search_start,        \* DicomMonitor.search_start (0 when no search runs)
  search_target_acc,   \* DicomMonitor.search_target_acc
  current_locked_acc,  \* DicomMonitor.current_locked_acc
  last_psone_mtime,    \* DicomMonitor._last_psone_mtime
  cache,               \* DicomMonitor._cache, least recently used first
  last_patient_title,  \* WindowMonitor.last_patient_title
  current_title,       \* check_patient_safety's local: the title it read last
  state_file,          \* the document in data/current_study.json, or NoFile
  result,              \* continue_search's local: what _try_match returned
  logTail,             \* the records the latest handler appended to the log
  reset_calls,         \* the reasons the latest handler called reset_state with
  psone_log,           \* PSOnePerf.log: exists, mtime, lines
  folders,             \* the study folders' datasets, newest mtime first
  now,                 \* time.monotonic()
  tickPc,              \* position of the main loop
  wPc,                 \* position of the watchdog thread in on_psone_log_changed
  wAcc,                \* the watchdog thread's local acc
  tickReset,           \* the reset check_patient_safety made in the current tick
  dataDirFault,        \* which call of _write_state raises OSError, if any
  logReadable,         \* whether open() of PSOnePerf.log succeeds
  out,                 \* _write_state's local: the filtered document
  tmp_file,            \* the temporary file of _write_state
  pubPc,               \* position inside _write_state
  cache_size,          \* DicomMonitor.cache_size
  cache_dir,           \* the children of DicomMonitor.cache_dir, as os.listdir gives them
  call,                \* the helper called last and its arguments
  ret,                 \* what that call returned
  lock_file,           \* data/service.lock: whether it exists and its text
  instances,           \* the position of each service process in main
  others               \* the process of another program, as _pid_exists finds it

monitorVars ==
  <<search_active, search_start, search_target_acc, current_locked_acc,
    last_psone_mtime, cache, state_file, result>>

envVars == <<psone_log, folders, now>>

windowVars == <<last_patient_title, current_title>>

watcherVars == <<wPc, wAcc>>

\* The state of the specifications that follow the tick's resets, the faults
\* of the file system and the statements of _write_state.
extVars ==
  <<tickReset, dataDirFault, logReadable, out, tmp_file, pubPc,
    cache_size, cache_dir, call, ret, lock_file, instances, others>>

\* The state of the specifications of the helpers: the capacity of the
\* cache, the listing of the cache directory, the call made and its result.
callVars == <<cache_size, cache_dir, call, ret, lock_file, instances, others>>

\* The PID lock of the service and the processes it is about.
lockVars == <<lock_file, instances, others>>

vars ==
  <<search_active, search_start, search_target_acc, current_locked_acc,
    last_psone_mtime, cache, last_patient_title, current_title, state_file,
    result, logTail, reset_calls, psone_log, folders, now, tickPc, wPc, wAcc,
    tickReset, dataDirFault, logReadable, out, tmp_file, pubPc,
    cache_size, cache_dir, call, ret,
    lock_file, instances, others>>

\* ----------------------------------------------------------------------
\* Log records: level, message and the string arguments formatted into it.
\* ----------------------------------------------------------------------

LogRec(level, msg, args) == [level |-> level, msg |-> msg, args |-> args]

\* ----------------------------------------------------------------------
\* State file
\* ----------------------------------------------------------------------

\* The keys _write_state copies.
AllowedKeys == {"Acc", "Sex", "Age", "Mod", "StudyDesc"}

\* _write_state without the key filter: every non-empty key is written.
WriteStateUnfiltered(data) ==
  [k \in {a \in DOMAIN data : data[a] /= EmptyStr} |-> StripControl(data[k])]

\* _write_state writing every allowed key, an absent or empty one as "".
WriteStateKeepsEmpty(data) ==
  [k \in AllowedKeys |-> StripControl(Get(data, k))]

\* _write_state: the document that replaces the state file. Only the allowed
\* keys with a non-empty value are kept, control characters stripped. The
\* data directory is writable here: mkstemp and os.replace succeed, so the
\* except OSError branch, which leaves the file as it was, is not taken
\* (SpecPublish and SpecFault take it).
WriteState(data) ==
  [k \in {a \in AllowedKeys : Get(data, a) /= EmptyStr} |-> StripControl(data[k])]

\* ----------------------------------------------------------------------
\* LRU cache: a sequence of [key, data], least recently used first.
\* ----------------------------------------------------------------------

CacheKeys(c) == {c[i].key : i \in 1..Len(c)}

CacheIndex(c, k) == CHOOSE i \in 1..Len(c) : c[i].key = k

\* self._cache[key]
CacheGet(c, k) == c[CacheIndex(c, k)].data

\* OrderedDict.move_to_end(key)
MoveToEnd(c, k) ==
  SelectSeq(c, LAMBDA e : e.key /= k) \o <<c[CacheIndex(c, k)]>>

\* self._cache[key] = data on an OrderedDict: an existing key keeps its
\* position, a new key goes to the end.
CacheSet(c, k, data) ==
  IF k \in CacheKeys(c)
    THEN [i \in 1..Len(c) |-> IF c[i].key = k THEN [key |-> k, data |-> data] ELSE c[i]]
    ELSE Append(c, [key |-> k, data |-> data])

\* _add_to_cache that evicts only when the size exceeds cache_size + 1.
AddToCacheOffByOne(c, accession, data) ==
  LET moved == IF accession \in CacheKeys(c) THEN MoveToEnd(c, accession) ELSE c
      put   == CacheSet(moved, accession, data)
  IN IF Len(put) > cache_size + 1 THEN Drop(put, Len(put) - cache_size - 1) ELSE put

\* _add_to_cache without move_to_end: a key already held keeps its position.
AddToCacheNoMove(c, accession, data) ==
  LET put == CacheSet(c, accession, data)
  IN IF Len(put) > cache_size THEN Drop(put, Len(put) - cache_size) ELSE put

\* _add_to_cache that files the record under its own accession, as read
\* from the dataset, instead of the accession it is given.
AddToCacheRawKey(c, accession, data) ==
  LET key   == Get(data, "Acc")
      moved == IF key \in CacheKeys(c) THEN MoveToEnd(c, key) ELSE c
      put   == CacheSet(moved, key, data)
  IN IF Len(put) > cache_size THEN Drop(put, Len(put) - cache_size) ELSE put

\* _add_to_cache: insert or update as most recently used, then evict from the
\* least recently used end while the size exceeds cache_size.
AddToCache(c, accession, data) ==
  LET moved == IF accession \in CacheKeys(c) THEN MoveToEnd(c, accession) ELSE c
      put   == CacheSet(moved, accession, data)
  IN IF Len(put) > cache_size THEN Drop(put, Len(put) - cache_size) ELSE put

\* ----------------------------------------------------------------------
\* PSOne log parsing
\* ----------------------------------------------------------------------

\* re.match(r"^[A-Z]{2,3}-\d+-[A-Z]{2}$", tok)
IsAccessionShape(tok) ==
  \E n \in {2, 3} :
    /\ Len(tok) >= n + 5
    /\ \A i \in 1..n : tok[i] \in UpperLetters
    /\ tok[n + 1] = "-"
    /\ \A i \in (n + 2)..(Len(tok) - 3) : tok[i] \in Digits
    /\ tok[Len(tok) - 2] = "-"
    /\ tok[Len(tok) - 1] \in UpperLetters
    /\ tok[Len(tok)] \in UpperLetters

\* The accession one log line yields: [found, acc].
LineAccession(fields) ==
  LET singles  == {i \in 1..(Len(fields) - 1) : fields[i] = SingleAccession}
      raw      == fields[Min(singles) + 1]
      patterns == {i \in 1..Len(fields) : IsAccessionShape(fields[i])}
  IN IF singles /= {} /\ raw /= EmptyStr /\ raw /= <<"-">>
       THEN [found |-> TRUE, acc |-> ExtractCoreAcc(raw)]
     ELSE IF patterns /= {}
       THEN [found |-> TRUE, acc |-> ExtractCoreAcc(fields[Min(patterns)])]
     ELSE [found |-> FALSE, acc |-> EmptyStr]

\* _parse_psone_log scanning the lines from the oldest to the newest.
RECURSIVE ParsePsoneLogOldestFirst(_)
ParsePsoneLogOldestFirst(lines) ==
  IF lines = << >> THEN EmptyStr
  ELSE IF LineAccession(lines[1]).found
    THEN LineAccession(lines[1]).acc
  ELSE ParsePsoneLogOldestFirst(Tail(lines))

\* _parse_psone_log: the lines are scanned from the newest to the oldest.
RECURSIVE ParsePsoneLog(_)
ParsePsoneLog(lines) ==
  IF lines = << >> THEN EmptyStr
  ELSE IF LineAccession(lines[Len(lines)]).found
    THEN LineAccession(lines[Len(lines)]).acc
  ELSE ParsePsoneLog(Take(lines, Len(lines) - 1))

\* ----------------------------------------------------------------------
\* DICOM matching
\* ----------------------------------------------------------------------

\* The cross-check without the upper-casing of either side.
NamePassesCaseSensitive(window_last, name) ==
  window_last = EmptyStr \/ Contains(window_last, name)

\* The name cross-check of _try_match:
\*   not window_last or window_last.upper() in name.upper()
NamePasses(window_last, name) ==
  window_last = EmptyStr \/ Contains(Upper(window_last), Upper(name))

\* _find_in_recent_folders without the accession comparison: the newest
\* folder that has a patient name.
FindInRecentFoldersAnyAccession(target_acc) ==
  LET n    == IF Len(folders) > MaxScanFolders THEN MaxScanFolders ELSE Len(folders)
      hits == {i \in 1..n : ExtractFields(folders[i])["_Name"] /= UnknownName}
  IN IF hits = {} THEN None ELSE ExtractFields(folders[Min(hits)])

\* The loop of _find_in_recent_folders over the sorted entries fs: the first
\* of the newest max_scan_folders folders whose dataset has a patient name
\* and the target's core accession.
FindInFolders(fs, target_acc) ==
  LET n    == IF Len(fs) > MaxScanFolders THEN MaxScanFolders ELSE Len(fs)
      hits == {i \in 1..n :
                 /\ ExtractFields(fs[i])["_Name"] /= UnknownName
                 /\ ExtractCoreAcc(ExtractFields(fs[i])["Acc"]) = target_acc}
  IN IF hits = {} THEN None ELSE ExtractFields(fs[Min(hits)])

\* _find_in_recent_folders on a cache directory whose UID-named folders,
\* newest first, are the variable folders.
FindInRecentFolders(target_acc) == FindInFolders(folders, target_acc)

\* data["_source"] = source
WithSource(data, source) ==
  [k \in (DOMAIN data) \cup {"_source"} |-> IF k = "_source" THEN source ELSE data[k]]

SourceCache == <<"c", "a", "c", "h", "e">>

SourceFolders == <<"r", "e", "c", "e", "n", "t">>

\* _try_match that caches a scan hit only after the cross-check passed.
TryMatchCachesAfterCheck(target_acc) ==
  LET window_patient == last_patient_title
      window_last    == ExtractLastName(window_patient)
  IN IF target_acc \in CacheKeys(cache)
       THEN LET data == CacheGet(cache, target_acc)
            IN IF NamePasses(window_last, Get(data, "_Name"))
                 THEN [result |-> WithSource(data, SourceCache),
                       cache  |-> CacheSet(MoveToEnd(cache, target_acc), target_acc,
                                           WithSource(data, SourceCache)),
                       log    |-> <<LogRec("DEBUG", "Cache hit for %s", <<target_acc>>)>>]
                 ELSE [result |-> None,
                       cache  |-> cache,
                       log    |-> <<LogRec("WARNING",
                                           "Cache hit but name mismatch: dicom=%s window=%s",
                                           <<Get(data, "_Name"), window_patient>>)>>]
     ELSE LET data == FindInRecentFolders(target_acc)
          IN IF data = None
               THEN [result |-> None, cache |-> cache, log |-> << >>]
             ELSE IF NamePasses(window_last, Get(data, "_Name"))
               THEN [result |-> WithSource(data, SourceFolders),
                     cache  |-> AddToCache(cache, target_acc,
                                           WithSource(data, SourceFolders)),
                     log    |-> <<LogRec("DEBUG", "Cached %s", <<target_acc>>)>>]
             ELSE [result |-> None,
                   cache  |-> cache,
                   log    |-> <<LogRec("WARNING",
                                       "Accession match but name mismatch: dicom=%s window=%s",
                                       <<Get(data, "_Name"), window_patient>>)>>]

\* _try_match: what it returns, the cache it leaves and the records it logs.
\* The dict returned is the object held by the cache, so the "_source" key
\* it sets is visible in the cache too.
TryMatch(target_acc) ==
  LET window_patient == last_patient_title
      window_last    == ExtractLastName(window_patient)
  IN IF target_acc \in CacheKeys(cache)
       THEN LET data == CacheGet(cache, target_acc)
            IN IF NamePasses(window_last, Get(data, "_Name"))
                 THEN [result |-> WithSource(data, SourceCache),
                       cache  |-> CacheSet(MoveToEnd(cache, target_acc), target_acc,
                                           WithSource(data, SourceCache)),
                       log    |-> <<LogRec("DEBUG", "Cache hit for %s", <<target_acc>>)>>]
                 ELSE [result |-> None,
                       cache  |-> cache,
                       log    |-> <<LogRec("WARNING",
                                           "Cache hit but name mismatch: dicom=%s window=%s",
                                           <<Get(data, "_Name"), window_patient>>)>>]
     ELSE LET data == FindInRecentFolders(target_acc)
              added == AddToCache(cache, target_acc, data)
          IN IF data = None
               THEN [result |-> None, cache |-> cache, log |-> << >>]
             ELSE IF NamePasses(window_last, Get(data, "_Name"))
               THEN [result |-> WithSource(data, SourceFolders),
                     cache  |-> IF target_acc \in CacheKeys(added)
                                  THEN CacheSet(added, target_acc,
                                                WithSource(data, SourceFolders))
                                  ELSE added,
                     log    |-> <<LogRec("DEBUG", "Cached %s", <<target_acc>>)>>]
             ELSE [result |-> None,
                   cache  |-> added,
                   log    |-> <<LogRec("DEBUG", "Cached %s", <<target_acc>>),
                                LogRec("WARNING",
                                       "Accession match but name mismatch: dicom=%s window=%s",
                                       <<Get(data, "_Name"), window_patient>>)>>]

\* ----------------------------------------------------------------------
\* PID lock (dicom_service._acquire_lock, _release_lock): the lock file
\* holds text; a process is a position in main.
\* ----------------------------------------------------------------------

\* The PIDs of the service processes, and the PID of another program.
InstancePids == 1..MaxInstances

OtherPid == MaxInstances + 1

DecimalDigits == <<"0", "1", "2", "3", "4", "5", "6", "7", "8", "9">>

\* str(n) for n >= 0
RECURSIVE Str(_)
Str(n) ==
  IF n < 10 THEN <<DecimalDigits[n + 1]>>
  ELSE Str(n \div 10) \o <<DecimalDigits[(n % 10) + 1]>>

\* str.strip() of the text read from the lock file: blanks and newlines.
StripWhite(s) ==
  LET keep == {i \in 1..Len(s) : s[i] \notin {" ", CTL}}
  IN IF keep = {} THEN EmptyStr ELSE SubSeq(s, Min(keep), Max(keep))

\* The value of a string of decimal digits.
RECURSIVE DigitsValue(_)
DigitsValue(s) ==
  IF s = EmptyStr THEN 0
  ELSE 10 * DigitsValue(SubSeq(s, 1, Len(s) - 1))
         + (CHOOSE d \in 0..9 : DecimalDigits[d + 1] = s[Len(s)])

\* int(text.strip()): the number, or ValueError.
ParsePid(text) ==
  LET t == StripWhite(text)
  IN IF t /= EmptyStr /\ \A i \in 1..Len(t) : t[i] \in Digits
       THEN [ok |-> TRUE, pid |-> DigitsValue(t)]
       ELSE [ok |-> FALSE, pid |-> 0]

\* No lock file, and the lock file a process wrote.
NoLock == [exists |-> FALSE, text |-> EmptyStr]

LockOf(pid) == [exists |-> TRUE, text |-> Str(pid)]

\* The positions of main at which the process is alive.
AlivePcs == {"check", "write", "running"}

\* _pid_exists(pid): OpenProcess gives a handle, or os.kill(pid, 0) raises
\* no OSError. For a process of another user both fail (access denied,
\* PermissionError), as for a PID that no process has.
PidExists(pid) ==
  \/ pid \in InstancePids /\ instances[pid] \in AlivePcs
  \/ pid = OtherPid /\ others = "live"

\* main has acquired the lock: the file holds the PID of the service.
Acquired ==
  /\ lock_file = LockOf(1)
  /\ instances = [p \in InstancePids |-> IF p = 1 THEN "running" ELSE "off"]
  /\ others = "dead"

\* The cache directory with nothing in it.
EmptyDir == [state |-> "ok", children |-> {}]

\* No helper has been called, and a call that has not returned.
NoCall == [fn |-> "none"]

NoReturn == [noreturn |-> EmptyStr]

\* The call has returned v.
Returned(v) == [value |-> v]

\* check_patient_safety has not called reset_state in the current tick.
NoReset == [reason |-> "none", target |-> EmptyStr]

\* ----------------------------------------------------------------------
\* Initial state: the monitor and the window monitor as constructed, an
\* empty data directory, no vendor log yet, an empty DICOM cache directory.
\* ----------------------------------------------------------------------

\* DicomMonitor.__init__, WindowMonitor.__init__ and the start of main: no
\* search, nothing locked, an empty LRU cache, no state file written yet.
Constructed ==
  /\ search_active = FALSE
  /\ search_start = 0
  /\ search_target_acc = EmptyStr
  /\ current_locked_acc = EmptyStr
  /\ last_psone_mtime = 0
  /\ cache = << >>
  /\ current_title = EmptyStr
  /\ state_file = NoFile
  /\ result = None
  /\ logTail = << >>
  /\ reset_calls = << >>
  /\ now = 1
  /\ tickPc = "safety"
  /\ wPc = "idle"
  /\ wAcc = EmptyStr
  /\ tickReset = NoReset
  /\ dataDirFault = "none"
  /\ out = EmptyDoc
  /\ tmp_file = NoFile
  /\ pubPc = "idle"

Init ==
  /\ Constructed
  /\ Acquired
  /\ last_patient_title = EmptyStr
  /\ psone_log = [exists |-> FALSE, mtime |-> 0, lines |-> << >>]
  /\ logReadable = TRUE
  /\ folders = << >>
  /\ cache_size = CacheSize
  /\ cache_dir = EmptyDir
  /\ call = NoCall
  /\ ret = NoReturn

\* ----------------------------------------------------------------------
\* DicomMonitor operations
\* ----------------------------------------------------------------------

\* _stop_search that leaves the search active.
StopSearchNoop == UNCHANGED <<search_active, search_start>>

\* _stop_search
StopSearch ==
  /\ search_active' = FALSE
  /\ search_start' = 0

\* _start_search that keeps the start time of the search it replaces.
StartSearchKeepsClock(accession, logs) ==
  /\ search_active' = TRUE
  /\ search_start' = IF search_active THEN search_start ELSE now
  /\ search_target_acc' = accession
  /\ current_locked_acc' = EmptyStr
  /\ state_file' = WriteState(EmptyDoc)
  /\ logTail' = logs \o <<LogRec("INFO", "Starting DICOM search for %s", <<accession>>)>>

\* _start_search that does not clear the state file.
StartSearchKeepsFile(accession, logs) ==
  /\ search_active' = TRUE
  /\ search_start' = now
  /\ search_target_acc' = accession
  /\ current_locked_acc' = EmptyStr
  /\ UNCHANGED state_file
  /\ logTail' = logs \o <<LogRec("INFO", "Starting DICOM search for %s", <<accession>>)>>

\* _start_search(accession); logs are the records logged before the call.
StartSearch(accession, logs) ==
  /\ search_active' = TRUE
  /\ search_start' = now
  /\ search_target_acc' = accession
  /\ current_locked_acc' = EmptyStr
  /\ state_file' = WriteState(EmptyDoc)
  /\ logTail' = logs \o <<LogRec("INFO", "Starting DICOM search for %s", <<accession>>)>>

\* reset_state that keeps the trigger dedup marker.
ResetStateKeepsMarker(reason, logs) ==
  /\ search_active' = FALSE
  /\ search_start' = 0
  /\ search_target_acc' = EmptyStr
  /\ current_locked_acc' = EmptyStr
  /\ UNCHANGED last_psone_mtime
  /\ state_file' = WriteState(EmptyDoc)
  /\ reset_calls' = <<reason>>
  /\ logTail' = logs \o
       (IF search_active \/ current_locked_acc /= EmptyStr
          THEN <<LogRec("INFO", "State reset (%s)", <<reason>>)>>
          ELSE << >>)

\* reset_state(reason); logs are the records logged before the call.
ResetState(reason, logs) ==
  /\ search_active' = FALSE
  /\ search_start' = 0
  /\ search_target_acc' = EmptyStr
  /\ current_locked_acc' = EmptyStr
  /\ last_psone_mtime' = 0
  /\ state_file' = WriteState(EmptyDoc)
  /\ reset_calls' = <<reason>>
  /\ logTail' = logs \o
       (IF search_active \/ current_locked_acc /= EmptyStr
          THEN <<LogRec("INFO", "State reset (%s)", <<reason>>)>>
          ELSE << >>)

\* The record _parse_psone_log logs when a line yields an accession.
ParseLogRecords(lines) ==
  IF \E i \in 1..Len(lines) : LineAccession(lines[i]).found
    THEN <<LogRec("INFO", "PSOne accession: %s", <<ParsePsoneLog(lines)>>)>>
    ELSE << >>

\* on_psone_log_changed that starts a search for every accession it parses,
\* without comparing it with the target and the locked accession.
OnPsoneLogChangedAlwaysStarts ==
  /\ reset_calls' = << >>
  /\ UNCHANGED <<cache, result>>
  /\ IF \/ last_patient_title = EmptyStr
        \/ ~psone_log.exists
        \/ psone_log.mtime = last_psone_mtime
       THEN /\ logTail' = << >>
            /\ UNCHANGED <<search_active, search_start, search_target_acc,
                           current_locked_acc, last_psone_mtime, state_file>>
       ELSE /\ last_psone_mtime' = psone_log.mtime
            /\ LET acc == ParsePsoneLog(psone_log.lines)
               IN IF acc /= EmptyStr
                    THEN StartSearch(acc, ParseLogRecords(psone_log.lines))
                    ELSE /\ logTail' = ParseLogRecords(psone_log.lines)
                         /\ UNCHANGED <<search_active, search_start, search_target_acc,
                                        current_locked_acc, state_file>>

\* on_psone_log_changed without the guard on the patient window.
OnPsoneLogChangedNoWindowGuard ==
  /\ reset_calls' = << >>
  /\ UNCHANGED <<cache, result>>
  /\ IF \/ ~psone_log.exists
        \/ psone_log.mtime = last_psone_mtime
       THEN /\ logTail' = << >>
            /\ UNCHANGED <<search_active, search_start, search_target_acc,
                           current_locked_acc, last_psone_mtime, state_file>>
       ELSE /\ last_psone_mtime' = psone_log.mtime
            /\ LET acc == ParsePsoneLog(psone_log.lines)
               IN IF /\ acc /= EmptyStr
                     /\ acc /= search_target_acc
                     /\ acc /= current_locked_acc
                    THEN StartSearch(acc, ParseLogRecords(psone_log.lines))
                    ELSE /\ logTail' = ParseLogRecords(psone_log.lines)
                         /\ UNCHANGED <<search_active, search_start, search_target_acc,
                                        current_locked_acc, state_file>>

\* on_psone_log_changed without the comparison of the modification time
\* and without the comparison with the target and the locked accession.
OnPsoneLogChangedNoDedup ==
  /\ reset_calls' = << >>
  /\ UNCHANGED <<cache, result>>
  /\ IF \/ last_patient_title = EmptyStr
        \/ ~psone_log.exists
       THEN /\ logTail' = << >>
            /\ UNCHANGED <<search_active, search_start, search_target_acc,
                           current_locked_acc, last_psone_mtime, state_file>>
       ELSE /\ last_psone_mtime' = psone_log.mtime
            /\ LET acc == ParsePsoneLog(psone_log.lines)
               IN IF acc /= EmptyStr
                    THEN StartSearch(acc, ParseLogRecords(psone_log.lines))
                    ELSE /\ logTail' = ParseLogRecords(psone_log.lines)
                         /\ UNCHANGED <<search_active, search_start, search_target_acc,
                                        current_locked_acc, state_file>>

\* on_psone_log_changed, run to completion.
OnPsoneLogChanged ==
  /\ reset_calls' = << >>
  /\ UNCHANGED <<cache, result>>
  /\ IF \/ last_patient_title = EmptyStr
        \/ ~psone_log.exists
        \/ psone_log.mtime = last_psone_mtime
       THEN /\ logTail' = << >>
            /\ UNCHANGED <<search_active, search_start, search_target_acc,
                           current_locked_acc, last_psone_mtime, state_file>>
       ELSE /\ last_psone_mtime' = psone_log.mtime
            /\ LET acc == ParsePsoneLog(psone_log.lines)
               IN IF /\ acc /= EmptyStr
                     /\ acc /= search_target_acc
                     /\ acc /= current_locked_acc
                    THEN StartSearch(acc, ParseLogRecords(psone_log.lines))
                    ELSE /\ logTail' = ParseLogRecords(psone_log.lines)
                         /\ UNCHANGED <<search_active, search_start, search_target_acc,
                                        current_locked_acc, state_file>>

\* continue_search that times out as soon as the elapsed time reaches the
\* timeout.
ContinueSearchTimesOutEarly ==
  /\ reset_calls' = << >>
  /\ UNCHANGED last_psone_mtime
  /\ IF ~search_active
       THEN /\ logTail' = << >>
            /\ UNCHANGED <<search_active, search_start, search_target_acc,
                           current_locked_acc, cache, state_file, result>>
     ELSE IF now - search_start >= SearchTimeout
       THEN /\ logTail' = <<LogRec("WARNING", "Search timed out for %s",
                                   <<search_target_acc>>)>>
            /\ StopSearch
            /\ UNCHANGED <<search_target_acc, current_locked_acc, cache,
                           state_file, result>>
     ELSE LET m == TryMatch(search_target_acc)
          IN /\ result' = m.result
             /\ cache' = m.cache
             /\ UNCHANGED search_target_acc
             /\ IF m.result /= None
                  THEN /\ logTail' = m.log \o
                            <<LogRec("INFO", "DICOM lock for %s (source=%s)",
                                     <<search_target_acc, m.result["_source"]>>)>>
                       /\ current_locked_acc' = search_target_acc
                       /\ state_file' = WriteState(m.result)
                       /\ StopSearch
                  ELSE /\ logTail' = m.log
                       /\ UNCHANGED <<search_active, search_start,
                                      current_locked_acc, state_file>>

\* continue_search, run to completion.
ContinueSearchBody ==
  /\ reset_calls' = << >>
  /\ UNCHANGED last_psone_mtime
  /\ IF ~search_active
       THEN /\ logTail' = << >>
            /\ UNCHANGED <<search_active, search_start, search_target_acc,
                           current_locked_acc, cache, state_file, result>>
     ELSE IF now - search_start > SearchTimeout
       THEN /\ logTail' = <<LogRec("WARNING", "Search timed out for %s",
                                   <<search_target_acc>>)>>
            /\ StopSearch
            /\ UNCHANGED <<search_target_acc, current_locked_acc, cache,
                           state_file, result>>
     ELSE LET m == TryMatch(search_target_acc)
          IN /\ result' = m.result
             /\ cache' = m.cache
             /\ UNCHANGED search_target_acc
             /\ IF m.result /= None
                  THEN /\ logTail' = m.log \o
                            <<LogRec("INFO", "DICOM lock for %s (source=%s)",
                                     <<search_target_acc, m.result["_source"]>>)>>
                       /\ current_locked_acc' = search_target_acc
                       /\ state_file' = WriteState(m.result)
                       /\ StopSearch
                  ELSE /\ logTail' = m.log
                       /\ UNCHANGED <<search_active, search_start,
                                      current_locked_acc, state_file>>

\* check_patient_safety that compares the whole titles, not the last names.
CheckPatientSafetyWholeTitle(title) ==
  /\ current_title' = title
  /\ UNCHANGED <<cache, result>>
  /\ IF title = EmptyStr /\ last_patient_title /= EmptyStr
       THEN /\ last_patient_title' = EmptyStr
            /\ ResetState("window_closed",
                          <<LogRec("INFO", "Patient window closed", << >>)>>)
     ELSE IF /\ title /= EmptyStr
             /\ last_patient_title /= EmptyStr
             /\ title /= last_patient_title
       THEN /\ last_patient_title' = title
            /\ ResetState("patient_changed",
                          <<LogRec("INFO", "Patient changed: %s -> %s",
                                   <<ExtractLastName(last_patient_title),
                                     ExtractLastName(title)>>)>>)
     ELSE /\ last_patient_title' = title
          /\ reset_calls' = << >>
          /\ logTail' = << >>
          /\ UNCHANGED <<search_active, search_start, search_target_acc,
                         current_locked_acc, last_psone_mtime, state_file>>

\* ----------------------------------------------------------------------
\* WindowMonitor.check_patient_safety; title is what get_patient_title
\* returns.
\* ----------------------------------------------------------------------

CheckPatientSafetyBody(title) ==
  /\ current_title' = title
  /\ UNCHANGED <<cache, result>>
  /\ IF title = EmptyStr /\ last_patient_title /= EmptyStr
       THEN /\ last_patient_title' = EmptyStr
            /\ ResetState("window_closed",
                          <<LogRec("INFO", "Patient window closed", << >>)>>)
     ELSE IF /\ title /= EmptyStr
             /\ last_patient_title /= EmptyStr
             /\ ExtractLastName(title) /= ExtractLastName(last_patient_title)
       THEN /\ last_patient_title' = title
            /\ ResetState("patient_changed",
                          <<LogRec("INFO", "Patient changed: %s -> %s",
                                   <<ExtractLastName(last_patient_title),
                                     ExtractLastName(title)>>)>>)
     ELSE /\ last_patient_title' = title
          /\ reset_calls' = << >>
          /\ logTail' = << >>
          /\ UNCHANGED <<search_active, search_start, search_target_acc,
                         current_locked_acc, last_psone_mtime, state_file>>

\* ----------------------------------------------------------------------
\* The main loop of dicom_service.main: one tick is check_patient_safety,
\* on_psone_log_changed, continue_search, then the sleep.
\* ----------------------------------------------------------------------

CheckPatientSafety ==
  /\ UNCHANGED extVars
  /\ tickPc = "safety"
  /\ \E title \in WindowTitles : CheckPatientSafetyBody(title)
  /\ tickPc' = "poll"
  /\ UNCHANGED <<envVars, watcherVars>>

FallbackPoll ==
  /\ UNCHANGED extVars
  /\ tickPc = "poll"
  /\ OnPsoneLogChanged
  /\ tickPc' = "search"
  /\ UNCHANGED <<windowVars, envVars, watcherVars>>

ContinueSearch ==
  /\ UNCHANGED extVars
  /\ tickPc = "search"
  /\ ContinueSearchBody
  /\ tickPc' = "sleep"
  /\ UNCHANGED <<windowVars, envVars, watcherVars>>

\* time.sleep(timer_interval)
Sleep ==
  /\ UNCHANGED extVars
  /\ tickPc = "sleep"
  /\ now < MaxTime
  /\ now' = now + 1
  /\ tickPc' = "safety"
  /\ UNCHANGED <<monitorVars, windowVars, logTail, reset_calls,
                 psone_log, folders, watcherVars>>

\* The loop ends (signal or stale heartbeat): the observer is stopped and
\* the state is reset.
Shutdown ==
  /\ UNCHANGED extVars
  /\ tickPc = "sleep"
  /\ wPc = "idle"
  /\ ResetState("shutdown", << >>)
  /\ tickPc' = "stopped"
  /\ UNCHANGED <<cache, result, windowVars, envVars, watcherVars>>

\* PSOnePerfHandler.on_modified on the watchdog thread, run to completion.
WatchdogOnModified ==
  /\ UNCHANGED extVars
  /\ tickPc /= "stopped"
  /\ wPc = "idle"
  /\ psone_log.exists
  /\ OnPsoneLogChanged
  /\ UNCHANGED <<windowVars, envVars, tickPc, watcherVars>>

\* ----------------------------------------------------------------------
\* Environment
\* ----------------------------------------------------------------------

\* PowerScribe appends a line to PSOnePerf.log. The main loop reads the log
\* only in its fallback poll, so an append is explored before a tick and
\* between the poll and continue_search; the watchdog thread may run after it
\* at any point.
AppendLog ==
  /\ UNCHANGED extVars
  /\ tickPc \in {"sleep", "search"}
  /\ psone_log.mtime < MaxLogWrites
  /\ \E line \in AppendedLines :
       psone_log' = [exists |-> TRUE, mtime |-> psone_log.mtime + 1,
                     lines |-> Append(psone_log.lines, line)]
  /\ UNCHANGED <<monitorVars, windowVars, logTail, reset_calls,
                 folders, now, tickPc, watcherVars>>

\* InteleViewer stores a study: its folder is the most recently modified.
\* Only continue_search reads the folders, so an arrival is explored
\* between ticks.
FolderArrives ==
  /\ UNCHANGED extVars
  /\ tickPc = "sleep"
  /\ Len(folders) < MaxFolders
  /\ \E ds \in ArrivingDatasets : folders' = <<ds>> \o folders
  /\ UNCHANGED <<monitorVars, windowVars, logTail, reset_calls,
                 psone_log, now, tickPc, watcherVars>>

Next ==
  \/ CheckPatientSafety
  \/ FallbackPoll
  \/ ContinueSearch
  \/ Sleep
  \/ Shutdown
  \/ WatchdogOnModified
  \/ AppendLog
  \/ FolderArrives

Spec == Init /\ [][Next]_vars

\* ----------------------------------------------------------------------
\* The two threads of the service, statement by statement. The watchdog
\* observer calls on_psone_log_changed on its own thread (dicom_service.main
\* schedules PSOnePerfHandler) while the main loop runs continue_search; no
\* lock guards the monitor, so the threads interleave between statements.
\* ----------------------------------------------------------------------

\* continue_search up to and including  result = self._try_match(...)
CsMatch ==
  /\ UNCHANGED extVars
  /\ tickPc = "search"
  /\ reset_calls' = << >>
  /\ IF ~search_active
       THEN /\ logTail' = << >>
            /\ tickPc' = "sleep"
            /\ UNCHANGED <<search_active, search_start, cache, result>>
     ELSE IF now - search_start > SearchTimeout
       THEN /\ logTail' = <<LogRec("WARNING", "Search timed out for %s",
                                   <<search_target_acc>>)>>
            /\ StopSearch
            /\ tickPc' = "sleep"
            /\ UNCHANGED <<cache, result>>
     ELSE /\ result' = TryMatch(search_target_acc).result
          /\ cache' = TryMatch(search_target_acc).cache
          /\ logTail' = TryMatch(search_target_acc).log
          /\ tickPc' = IF TryMatch(search_target_acc).result /= None
                         THEN "cs_lock" ELSE "sleep"
          /\ UNCHANGED <<search_active, search_start>>
  /\ UNCHANGED <<search_target_acc, current_locked_acc, last_psone_mtime,
                 state_file, windowVars, envVars, watcherVars>>

\* log.info("DICOM lock for %s ...");
\* self.current_locked_acc = self.search_target_acc
CsLock ==
  /\ UNCHANGED extVars
  /\ tickPc = "cs_lock"
  /\ logTail' = <<LogRec("INFO", "DICOM lock for %s (source=%s)",
                         <<search_target_acc, result["_source"]>>)>>
  /\ current_locked_acc' = search_target_acc
  /\ tickPc' = "cs_write"
  /\ UNCHANGED <<search_active, search_start, search_target_acc, last_psone_mtime,
                 cache, state_file, result, reset_calls, windowVars,
                 envVars, watcherVars>>

\* self._write_state(result)
CsWrite ==
  /\ UNCHANGED extVars
  /\ tickPc = "cs_write"
  /\ state_file' = WriteState(result)
  /\ tickPc' = "cs_stop"
  /\ UNCHANGED <<search_active, search_start, search_target_acc, current_locked_acc,
                 last_psone_mtime, cache, result, logTail, reset_calls,
                 windowVars, envVars, watcherVars>>

\* self._stop_search()
CsStop ==
  /\ UNCHANGED extVars
  /\ tickPc = "cs_stop"
  /\ StopSearch
  /\ tickPc' = "sleep"
  /\ UNCHANGED <<search_target_acc, current_locked_acc, last_psone_mtime, cache,
                 state_file, result, logTail, reset_calls, windowVars,
                 envVars, watcherVars>>

\* on_psone_log_changed on the watchdog thread, up to the call of
\* _start_search: the window guard, the mtime dedup, the parse and the
\* comparison with the active target and the locked accession.
WCheck ==
  /\ UNCHANGED extVars
  /\ tickPc /= "stopped"
  /\ wPc = "idle"
  /\ psone_log.exists
  /\ IF \/ last_patient_title = EmptyStr
        \/ psone_log.mtime = last_psone_mtime
       THEN /\ logTail' = << >>
            /\ UNCHANGED <<last_psone_mtime, watcherVars>>
       ELSE /\ last_psone_mtime' = psone_log.mtime
            /\ logTail' = ParseLogRecords(psone_log.lines)
            /\ IF /\ ParsePsoneLog(psone_log.lines) /= EmptyStr
                  /\ ParsePsoneLog(psone_log.lines) /= search_target_acc
                  /\ ParsePsoneLog(psone_log.lines) /= current_locked_acc
                 THEN /\ wPc' = "start_active"
                      /\ wAcc' = ParsePsoneLog(psone_log.lines)
                 ELSE UNCHANGED watcherVars
  /\ UNCHANGED <<search_active, search_start, search_target_acc, current_locked_acc,
                 cache, state_file, result, reset_calls, windowVars,
                 envVars, tickPc>>

\* _start_search: self.search_active = True; self.search_start = time.monotonic()
WStartActive ==
  /\ UNCHANGED extVars
  /\ wPc = "start_active"
  /\ logTail' = <<LogRec("INFO", "Starting DICOM search for %s", <<wAcc>>)>>
  /\ search_active' = TRUE
  /\ search_start' = now
  /\ wPc' = "start_target"
  /\ UNCHANGED <<search_target_acc, current_locked_acc, last_psone_mtime, cache,
                 state_file, result, reset_calls, windowVars, envVars,
                 tickPc, wAcc>>

\* _start_search: self.search_target_acc = accession
WStartTarget ==
  /\ UNCHANGED extVars
  /\ wPc = "start_target"
  /\ search_target_acc' = wAcc
  /\ wPc' = "start_locked"
  /\ UNCHANGED <<search_active, search_start, current_locked_acc, last_psone_mtime,
                 cache, state_file, result, logTail, reset_calls,
                 windowVars, envVars, tickPc, wAcc>>

\* _start_search: self.current_locked_acc = ""
WStartLocked ==
  /\ UNCHANGED extVars
  /\ wPc = "start_locked"
  /\ current_locked_acc' = EmptyStr
  /\ wPc' = "start_write"
  /\ UNCHANGED <<search_active, search_start, search_target_acc, last_psone_mtime,
                 cache, state_file, result, logTail, reset_calls,
                 windowVars, envVars, tickPc, wAcc>>

\* _start_search: self._write_state({})
WStartWrite ==
  /\ UNCHANGED extVars
  /\ wPc = "start_write"
  /\ state_file' = WriteState(EmptyDoc)
  /\ wPc' = "idle"
  /\ wAcc' = EmptyStr
  /\ UNCHANGED <<search_active, search_start, search_target_acc, current_locked_acc,
                 last_psone_mtime, cache, result, logTail, reset_calls,
                 windowVars, envVars, tickPc>>

NextConc ==
  \/ CheckPatientSafety
  \/ FallbackPoll
  \/ CsMatch
  \/ CsLock
  \/ CsWrite
  \/ CsStop
  \/ Sleep
  \/ Shutdown
  \/ WCheck
  \/ WStartActive
  \/ WStartTarget
  \/ WStartLocked
  \/ WStartWrite
  \/ AppendLog
  \/ FolderArrives

SpecConc == Init /\ [][NextConc]_vars

\* ----------------------------------------------------------------------
\* The tick loop with a record of the reset check_patient_safety made in
\* the current tick: its reason and the target that was being searched.
\* ----------------------------------------------------------------------

TickCheckPatientSafety ==
  /\ tickPc = "safety"
  /\ \E title \in WindowTitles : CheckPatientSafetyBody(title)
  /\ tickReset' = IF reset_calls' = << >>
                    THEN NoReset
                    ELSE [reason |-> reset_calls'[1],
                          target |-> IF search_active THEN search_target_acc
                                                      ELSE EmptyStr]
  /\ tickPc' = "poll"
  /\ UNCHANGED <<callVars, envVars, watcherVars, dataDirFault, logReadable, out,
                 tmp_file, pubPc>>

\* time.sleep(timer_interval): the tick is over.
TickSleep ==
  /\ tickPc = "sleep"
  /\ now < MaxTime
  /\ now' = now + 1
  /\ tickPc' = "safety"
  /\ tickReset' = NoReset
  /\ UNCHANGED <<callVars, monitorVars, windowVars, logTail, reset_calls, psone_log,
                 folders, watcherVars, dataDirFault, logReadable, out,
                 tmp_file, pubPc>>

\* PowerScribe appends to its log while the loop sleeps; the watchdog thread
\* may deliver the event at any later point of the following ticks.
TickAppendLog ==
  /\ tickPc = "sleep"
  /\ AppendLog

NextTick ==
  \/ TickCheckPatientSafety
  \/ FallbackPoll
  \/ ContinueSearch
  \/ TickSleep
  \/ Shutdown
  \/ WatchdogOnModified
  \/ TickAppendLog
  \/ FolderArrives

SpecTick == Init /\ [][NextTick]_vars

\* ----------------------------------------------------------------------
\* _write_state statement by statement: the filter, mkstemp, json.dump into
\* the temporary file, os.replace; an OSError inside the try block, and the
\* kill of the process at any statement. A file is the sequence of items
\* written to it and whether the document was closed; the file system keeps
\* what was written when the process is killed.
\* ----------------------------------------------------------------------

\* The records handed to _write_state: {} and the records _try_match returns.
PublishInputs ==
  {EmptyDoc} \cup {WithSource(ExtractFields(ds), SourceFolders) : ds \in ArrivingDatasets}

\* The order in which _write_state fills out, which json.dump follows.
KeyOrder == <<"Acc", "Sex", "Age", "Mod", "StudyDesc">>

\* The items json.dump writes for a document, in order.
Items(doc) ==
  LET keys == SelectSeq(KeyOrder, LAMBDA k : k \in DOMAIN doc)
  IN [i \in 1..Len(keys) |-> [key |-> keys[i], val |-> doc[keys[i]]]]

\* What a reader of a file gets: the document if it was written whole,
\* else text that is not a document.
FileDoc(f) ==
  IF f.closed
    THEN [k \in {f.items[i].key : i \in 1..Len(f.items)} |->
            (CHOOSE it \in {f.items[i] : i \in 1..Len(f.items)} : it.key = k).val]
    ELSE [partial |-> f.items]

\* os.replace of the temporary file over the state file while json.dump is
\* still writing it.
WsReplacePartial ==
  /\ pubPc \in {"dump", "replace"}
  /\ state_file' = FileDoc(tmp_file)
  /\ tmp_file' = NoFile
  /\ pubPc' = "idle"
  /\ UNCHANGED <<callVars, search_active, search_start, search_target_acc, current_locked_acc,
                 last_psone_mtime, cache, result, logTail, reset_calls, windowVars,
                 envVars, tickPc, watcherVars, tickReset, dataDirFault,
                 logReadable, out>>

\* os.makedirs and the filter to the allowed keys
WsFilter ==
  /\ pubPc = "idle"
  /\ \E data \in PublishInputs : out' = WriteState(data)
  /\ pubPc' = "mkstemp"
  /\ UNCHANGED <<callVars, search_active, search_start, search_target_acc, current_locked_acc,
                 last_psone_mtime, cache, state_file, result, logTail, reset_calls,
                 windowVars, envVars, tickPc, watcherVars, tickReset,
                 dataDirFault, logReadable, tmp_file>>

\* tempfile.mkstemp(dir=self.data_dir, suffix=".tmp")
WsMkstemp ==
  /\ pubPc = "mkstemp"
  /\ tmp_file' = [items |-> << >>, closed |-> FALSE]
  /\ pubPc' = "dump"
  /\ UNCHANGED <<callVars, search_active, search_start, search_target_acc, current_locked_acc,
                 last_psone_mtime, cache, state_file, result, logTail, reset_calls,
                 windowVars, envVars, tickPc, watcherVars, tickReset,
                 dataDirFault, logReadable, out>>

\* json.dump(out, fh) item by item, then the end of the with block.
WsDump ==
  /\ pubPc = "dump"
  /\ IF Len(tmp_file.items) < Len(Items(out))
       THEN /\ tmp_file' = [tmp_file EXCEPT
                              !.items = Append(@, Items(out)[Len(@) + 1])]
            /\ pubPc' = "dump"
       ELSE /\ tmp_file' = [tmp_file EXCEPT !.closed = TRUE]
            /\ pubPc' = "replace"
  /\ UNCHANGED <<callVars, search_active, search_start, search_target_acc, current_locked_acc,
                 last_psone_mtime, cache, state_file, result, logTail, reset_calls,
                 windowVars, envVars, tickPc, watcherVars, tickReset,
                 dataDirFault, logReadable, out>>

\* os.replace(tmp_path, self.state_file)
WsReplace ==
  /\ pubPc = "replace"
  /\ state_file' = FileDoc(tmp_file)
  /\ tmp_file' = NoFile
  /\ pubPc' = "idle"
  /\ UNCHANGED <<callVars, search_active, search_start, search_target_acc, current_locked_acc,
                 last_psone_mtime, cache, result, logTail, reset_calls, windowVars,
                 envVars, tickPc, watcherVars, tickReset, dataDirFault,
                 logReadable, out>>

\* except OSError: log.warning(...); os.unlink(tmp_path)
WsOSError ==
  /\ pubPc \in {"dump", "replace"}
  /\ logTail' = <<LogRec("WARNING", "Failed to write state file", << >>)>>
  /\ tmp_file' = NoFile
  /\ pubPc' = "idle"
  /\ UNCHANGED <<callVars, search_active, search_start, search_target_acc, current_locked_acc,
                 last_psone_mtime, cache, state_file, result, reset_calls,
                 windowVars, envVars, tickPc, watcherVars, tickReset,
                 dataDirFault, logReadable, out>>

\* The process is killed inside _write_state; the files stay as they are.
WsKill ==
  /\ pubPc \in {"mkstemp", "dump", "replace"}
  /\ pubPc' = "dead"
  /\ UNCHANGED <<callVars, search_active, search_start, search_target_acc, current_locked_acc,
                 last_psone_mtime, cache, state_file, result, logTail, reset_calls,
                 windowVars, envVars, tickPc, watcherVars, tickReset,
                 dataDirFault, logReadable, out, tmp_file>>

NextPublish ==
  \/ WsFilter
  \/ WsMkstemp
  \/ WsDump
  \/ WsReplace
  \/ WsOSError
  \/ WsKill

SpecPublish == Init /\ [][NextPublish]_vars

\* ----------------------------------------------------------------------
\* The tick loop on a faulty file system. dataDirFault says which call of
\* _write_state raises OSError: "none"; "write", a call inside the try
\* block (fdopen, json.dump, os.replace), which _write_state catches and
\* logs; "mkstemp", os.makedirs or tempfile.mkstemp, which are outside the
\* try block, so the OSError leaves _write_state and its callers and is
\* caught by the main loop (except Exception: log.exception), which skips
\* the rest of the tick. logReadable says whether open() of PSOnePerf.log
\* succeeds; os.path.isfile and os.path.getmtime do not open the file.
\* ----------------------------------------------------------------------

\* The OSError leaves _write_state.
PublishRaises == dataDirFault = "mkstemp"

\* The state file after _write_state(data).
PublishedFile(data) ==
  IF dataDirFault = "none" THEN WriteState(data) ELSE state_file

\* What a call of _write_state, and the main loop after it, log.
PublishLog ==
  IF dataDirFault = "write"
    THEN <<LogRec("WARNING", "Failed to write state file", << >>)>>
  ELSE IF dataDirFault = "mkstemp"
    THEN <<LogRec("ERROR", "Error in main loop tick", << >>)>>
  ELSE << >>

\* _start_search(accession)
FaultStartSearch(accession, logs) ==
  /\ search_active' = TRUE
  /\ search_start' = now
  /\ search_target_acc' = accession
  /\ current_locked_acc' = EmptyStr
  /\ state_file' = PublishedFile(EmptyDoc)
  /\ logTail' = logs \o <<LogRec("INFO", "Starting DICOM search for %s", <<accession>>)>>
                     \o PublishLog

\* reset_state(reason): the fields are cleared before _write_state is
\* called; "State reset" is logged after it returns.
FaultResetState(reason, logs) ==
  /\ search_active' = FALSE
  /\ search_start' = 0
  /\ search_target_acc' = EmptyStr
  /\ current_locked_acc' = EmptyStr
  /\ last_psone_mtime' = 0
  /\ state_file' = PublishedFile(EmptyDoc)
  /\ reset_calls' = <<reason>>
  /\ logTail' = logs \o PublishLog \o
       (IF ~PublishRaises /\ (search_active \/ current_locked_acc /= EmptyStr)
          THEN <<LogRec("INFO", "State reset (%s)", <<reason>>)>>
          ELSE << >>)

\* _parse_psone_log: open() raising OSError yields "".
FaultParsePsoneLog == IF logReadable THEN ParsePsoneLog(psone_log.lines) ELSE EmptyStr

\* check_patient_safety; when reset_state raises on a patient change the
\* stored label is not updated.
FaultCheckPatientSafety ==
  /\ tickPc = "safety"
  /\ \E title \in WindowTitles :
       /\ current_title' = title
       /\ IF title = EmptyStr /\ last_patient_title /= EmptyStr
            THEN /\ last_patient_title' = EmptyStr
                 /\ FaultResetState("window_closed",
                                    <<LogRec("INFO", "Patient window closed", << >>)>>)
          ELSE IF /\ title /= EmptyStr
                  /\ last_patient_title /= EmptyStr
                  /\ ExtractLastName(title) /= ExtractLastName(last_patient_title)
            THEN /\ last_patient_title' = IF PublishRaises THEN last_patient_title
                                                           ELSE title
                 /\ FaultResetState("patient_changed",
                                    <<LogRec("INFO", "Patient changed: %s -> %s",
                                             <<ExtractLastName(last_patient_title),
                                               ExtractLastName(title)>>)>>)
          ELSE /\ last_patient_title' = title
               /\ reset_calls' = << >>
               /\ logTail' = << >>
               /\ UNCHANGED <<search_active, search_start, search_target_acc,
                              current_locked_acc, last_psone_mtime, state_file>>
  /\ tickPc' = IF PublishRaises /\ reset_calls' /= << >> THEN "sleep" ELSE "poll"
  /\ UNCHANGED <<cache, result, envVars, watcherVars, extVars>>

\* on_psone_log_changed from the main loop
FaultFallbackPoll ==
  /\ tickPc = "poll"
  /\ reset_calls' = << >>
  /\ IF \/ last_patient_title = EmptyStr
        \/ ~psone_log.exists
        \/ psone_log.mtime = last_psone_mtime
       THEN /\ logTail' = << >>
            /\ tickPc' = "search"
            /\ UNCHANGED <<search_active, search_start, search_target_acc,
                           current_locked_acc, last_psone_mtime, state_file>>
       ELSE /\ last_psone_mtime' = psone_log.mtime
            /\ IF /\ FaultParsePsoneLog /= EmptyStr
                  /\ FaultParsePsoneLog /= search_target_acc
                  /\ FaultParsePsoneLog /= current_locked_acc
                 THEN /\ FaultStartSearch(FaultParsePsoneLog,
                                          ParseLogRecords(psone_log.lines))
                      /\ tickPc' = IF PublishRaises THEN "sleep" ELSE "search"
                 ELSE /\ logTail' = IF logReadable
                                      THEN ParseLogRecords(psone_log.lines)
                                      ELSE << >>
                      /\ tickPc' = "search"
                      /\ UNCHANGED <<search_active, search_start, search_target_acc,
                                     current_locked_acc, state_file>>
  /\ UNCHANGED <<cache, result, windowVars, envVars, watcherVars, extVars>>

\* continue_search that publishes {} when the search times out, before
\* _stop_search: an OSError of _write_state leaves the search running.
FaultContinueSearchPublishesOnTimeout ==
  /\ tickPc = "search"
  /\ reset_calls' = << >>
  /\ IF ~search_active
       THEN /\ logTail' = << >>
            /\ UNCHANGED <<search_active, search_start, current_locked_acc,
                           cache, state_file, result>>
     ELSE IF now - search_start > SearchTimeout
       THEN /\ logTail' = <<LogRec("WARNING", "Search timed out for %s",
                                   <<search_target_acc>>)>> \o PublishLog
            /\ state_file' = PublishedFile(EmptyDoc)
            /\ IF PublishRaises
                 THEN UNCHANGED <<search_active, search_start>>
                 ELSE StopSearch
            /\ UNCHANGED <<current_locked_acc, cache, result>>
     ELSE LET m == TryMatch(search_target_acc)
          IN /\ result' = m.result
             /\ cache' = m.cache
             /\ IF m.result /= None
                  THEN /\ logTail' = m.log \o
                            <<LogRec("INFO", "DICOM lock for %s (source=%s)",
                                     <<search_target_acc, m.result["_source"]>>)>>
                            \o PublishLog
                       /\ current_locked_acc' = search_target_acc
                       /\ state_file' = PublishedFile(m.result)
                       /\ IF PublishRaises
                            THEN UNCHANGED <<search_active, search_start>>
                            ELSE StopSearch
                  ELSE /\ logTail' = m.log
                       /\ UNCHANGED <<search_active, search_start,
                                      current_locked_acc, state_file>>
  /\ tickPc' = "sleep"
  /\ UNCHANGED <<search_target_acc, last_psone_mtime, windowVars, envVars,
                 watcherVars, extVars>>

\* continue_search; when _write_state raises, _stop_search is not reached.
FaultContinueSearch ==
  /\ tickPc = "search"
  /\ reset_calls' = << >>
  /\ IF ~search_active
       THEN /\ logTail' = << >>
            /\ UNCHANGED <<search_active, search_start, current_locked_acc,
                           cache, state_file, result>>
     ELSE IF now - search_start > SearchTimeout
       THEN /\ logTail' = <<LogRec("WARNING", "Search timed out for %s",
                                   <<search_target_acc>>)>>
            /\ StopSearch
            /\ UNCHANGED <<current_locked_acc, cache, state_file, result>>
     ELSE LET m == TryMatch(search_target_acc)
          IN /\ result' = m.result
             /\ cache' = m.cache
             /\ IF m.result /= None
                  THEN /\ logTail' = m.log \o
                            <<LogRec("INFO", "DICOM lock for %s (source=%s)",
                                     <<search_target_acc, m.result["_source"]>>)>>
                            \o PublishLog
                       /\ current_locked_acc' = search_target_acc
                       /\ state_file' = PublishedFile(m.result)
                       /\ IF PublishRaises
                            THEN UNCHANGED <<search_active, search_start>>
                            ELSE StopSearch
                  ELSE /\ logTail' = m.log
                       /\ UNCHANGED <<search_active, search_start,
                                      current_locked_acc, state_file>>
  /\ tickPc' = "sleep"
  /\ UNCHANGED <<search_target_acc, last_psone_mtime, windowVars, envVars,
                 watcherVars, extVars>>

\* The data directory becomes unwritable, or writable again, between ticks.
DataDirFaultChanges ==
  /\ tickPc = "sleep"
  /\ \E fault \in {"none", "write", "mkstemp"} :
       /\ fault /= dataDirFault
       /\ dataDirFault' = fault
  /\ UNCHANGED <<callVars, monitorVars, windowVars, logTail, reset_calls, envVars, tickPc,
                 watcherVars, tickReset, logReadable, out, tmp_file, pubPc>>

\* PSOnePerf.log becomes unreadable (held open by its writer), or readable
\* again, between ticks.
LogReadableChanges ==
  /\ tickPc = "sleep"
  /\ psone_log.exists
  /\ logReadable' = ~logReadable
  /\ UNCHANGED <<callVars, monitorVars, windowVars, logTail, reset_calls, envVars, tickPc,
                 watcherVars, tickReset, dataDirFault, out, tmp_file, pubPc>>

NextFault ==
  \/ FaultCheckPatientSafety
  \/ FaultFallbackPoll
  \/ FaultContinueSearch
  \/ Sleep
  \/ AppendLog
  \/ FolderArrives
  \/ DataDirFaultChanges
  \/ LogReadableChanges

SpecFault == Init /\ [][NextFault]_vars

\* ----------------------------------------------------------------------
\* _extract_core_acc on its own: the accession is drawn in the initial
\* state, the function is applied to it and then to its own result.
\* ----------------------------------------------------------------------

\* The characters of the accessions tried: a letter, the dash, the letters
\* of a modality code, the underscore, a digit.
AccAlphabet == {"A", "-", "C", "T", "_", "1"}

\* The accession of the form SITE-12345-<modality>_7 of each clinical code.
SiteAccession(m) ==
  <<"S", "I", "T", "E", "-", "1", "2", "3", "4", "5", "-">> \o m \o <<"_", "7">>

\* The arguments _extract_core_acc is called with: None, every string over
\* AccAlphabet of at most MaxAccLen characters, "N/A" with and without a
\* split suffix, and the split accession of every modality.
AccInputs ==
  UNION {[1..n -> AccAlphabet] : n \in 0..MaxAccLen}
    \cup {NoneStr, NotAvailable, NotAvailable \o <<"_", "1">>}
    \cup {SiteAccession(m) : m \in ClinicalModalities}

InitNormalize ==
  /\ Constructed
  /\ Acquired
  /\ last_patient_title = EmptyStr
  /\ psone_log = [exists |-> FALSE, mtime |-> 0, lines |-> << >>]
  /\ logReadable = TRUE
  /\ folders = << >>
  /\ cache_size = CacheSize
  /\ cache_dir = EmptyDir
  /\ call \in {[fn |-> "_extract_core_acc", acc |-> x, nth |-> 1] : x \in AccInputs}
  /\ ret = NoReturn

\* _extract_core_acc(acc)
ExtractCoreAccCall ==
  /\ call.fn = "_extract_core_acc"
  /\ ret = NoReturn
  /\ ret' = Returned(ExtractCoreAcc(call.acc))
  /\ UNCHANGED <<monitorVars, windowVars, logTail, reset_calls, envVars, tickPc,
                 watcherVars, tickReset, dataDirFault, logReadable, out,
                 tmp_file, pubPc, lockVars, cache_size, cache_dir, call>>

\* _extract_core_acc applied to what it returned.
ExtractCoreAccAgain ==
  /\ call.fn = "_extract_core_acc"
  /\ call.nth = 1
  /\ ret /= NoReturn
  /\ call' = [fn |-> "_extract_core_acc", acc |-> ret.value, nth |-> 2]
  /\ ret' = Returned(ExtractCoreAcc(ret.value))
  /\ UNCHANGED <<monitorVars, windowVars, logTail, reset_calls, envVars, tickPc,
                 watcherVars, tickReset, dataDirFault, logReadable, out,
                 tmp_file, pubPc, lockVars, cache_size, cache_dir>>

NextNormalize ==
  \/ ExtractCoreAccCall
  \/ ExtractCoreAccAgain

SpecNormalize == InitNormalize /\ [][NextNormalize]_vars

\* ----------------------------------------------------------------------
\* The LRU cache on its own: a monitor constructed with any cache_size up
\* to MaxCacheSize, on which _add_to_cache and _try_match are called with
\* any accession, as the unit tests and continue_search call them.
\* ----------------------------------------------------------------------

AccUS == <<"R", "A", "-", "3", "-", "U", "S">>

AccDX == <<"R", "A", "-", "4", "-", "D", "X">>

DsSmithUS ==
  [PatientName |-> NameSmith, AccessionNumber |-> AccUS,
   PatientSex |-> <<"F">>, Modality |-> <<"U", "S">>]

DsDoeDX ==
  [PatientName |-> NameDoe, AccessionNumber |-> AccDX,
   PatientSex |-> <<"M">>, Modality |-> <<"D", "X">>]

\* The accessions the cache is asked for.
CacheAccessions == {AccCT, AccMR, AccUS, AccDX}

\* The studies cached: [accession, data], data as _extract_fields gives it.
CacheInputs ==
  {[accession |-> ExtractCoreAcc(ExtractFields(ds)["Acc"]), data |-> ExtractFields(ds)] :
     ds \in {DsDoeCT, DsSmithCT, DsDoeMR, DsSmithUS, DsDoeDX}}

\* The records _add_to_cache logs: one per eviction, then the insertion.
AddToCacheLog(c, accession, data) ==
  LET moved == IF accession \in CacheKeys(c) THEN MoveToEnd(c, accession) ELSE c
      put   == CacheSet(moved, accession, data)
      n     == IF Len(put) > cache_size THEN Len(put) - cache_size ELSE 0
  IN [i \in 1..n |-> LogRec("DEBUG", "Evicted %s from cache", <<put[i].key>>)]
       \o <<LogRec("DEBUG", "Cached %s (size=%d)", <<accession>>)>>

InitCache ==
  /\ Constructed
  /\ Acquired
  /\ last_patient_title \in WindowTitles
  /\ psone_log = [exists |-> FALSE, mtime |-> 0, lines |-> << >>]
  /\ logReadable = TRUE
  /\ folders = <<DsSmithCT, DsDoeMR>>
  /\ cache_size \in 1..MaxCacheSize
  /\ cache_dir = EmptyDir
  /\ call = NoCall
  /\ ret = NoReturn

\* m._add_to_cache(accession, data)
AddToCacheCall ==
  /\ \E in \in CacheInputs :
       /\ call' = [fn |-> "_add_to_cache", accession |-> in.accession, data |-> in.data]
       /\ cache' = AddToCache(cache, in.accession, in.data)
       /\ logTail' = AddToCacheLog(cache, in.accession, in.data)
  /\ ret' = Returned(None)
  /\ UNCHANGED <<search_active, search_start, search_target_acc, current_locked_acc,
                 last_psone_mtime, state_file, result, reset_calls, windowVars,
                 envVars, tickPc, watcherVars, tickReset, dataDirFault,
                 logReadable, out, tmp_file, pubPc, lockVars, cache_size, cache_dir>>

\* m._try_match(target_acc)
TryMatchCall ==
  /\ \E target_acc \in CacheAccessions :
       /\ call' = [fn |-> "_try_match", target_acc |-> target_acc]
       /\ cache' = TryMatch(target_acc).cache
       /\ logTail' = TryMatch(target_acc).log
       /\ ret' = Returned(TryMatch(target_acc).result)
  /\ UNCHANGED <<search_active, search_start, search_target_acc, current_locked_acc,
                 last_psone_mtime, state_file, result, reset_calls, windowVars,
                 envVars, tickPc, watcherVars, tickReset, dataDirFault,
                 logReadable, out, tmp_file, pubPc, lockVars, cache_size, cache_dir>>

NextCache ==
  \/ AddToCacheCall
  \/ TryMatchCall

SpecCache == InitCache /\ [][NextCache]_vars

\* ----------------------------------------------------------------------
\* _find_in_recent_folders on its own, from os.listdir on. The cache
\* directory is [state, children]: state "ok", "missing" (os.path.isdir is
\* false) or "unreadable" (os.listdir raises OSError); a child is
\* [name, isdir, statable, mtime, ds], statable false when os.path.getmtime
\* raises OSError, ds the dataset of the first DICOM file below it.
\* ----------------------------------------------------------------------

\* The characters of the names in code point order.
CharOrder ==
  <<".", "0", "1", "2", "3", "4", "5", "6", "7", "8", "9">> \o UpperAlphabet \o LowerAlphabet

CodePoint(c) == CHOOSE i \in 1..Len(CharOrder) : CharOrder[i] = c

\* a > b for Python strings
StrGreater(a, b) ==
  \E i \in 1..Len(a) :
    /\ i - 1 <= Len(b)
    /\ SubSeq(a, 1, i - 1) = SubSeq(b, 1, i - 1)
    /\ (i > Len(b) \/ CodePoint(a[i]) > CodePoint(b[i]))

\* _looks_like_uid without the test for a period.
LooksLikeUidDigitOnly(name) ==
  /\ name /= EmptyStr
  /\ name[1] \in Digits

\* _looks_like_uid
LooksLikeUid(name) ==
  /\ name /= EmptyStr
  /\ name[1] \in Digits
  /\ \E i \in 1..Len(name) : name[i] = "."

\* (mtime, path) > (mtime, path) for the tuples entries.sort compares; the
\* paths share the directory, so the names decide.
EntryGreater(e, f) ==
  \/ e.mtime > f.mtime
  \/ e.mtime = f.mtime /\ StrGreater(e.name, f.name)

\* entries.sort(reverse=True)
RECURSIVE SortReverse(_)
SortReverse(S) ==
  IF S = {} THEN << >>
  ELSE LET first == CHOOSE e \in S : \A f \in S \ {e} : EntryGreater(e, f)
       IN <<first>> \o SortReverse(S \ {first})

\* entries after the sort: the children that look like a UID, are
\* directories and have a readable modification time, newest first.
ScanEntries(dir) ==
  SortReverse({e \in dir.children : LooksLikeUid(e.name) /\ e.isdir /\ e.statable})

\* The datasets of the entries, in their order.
ScanFolders(dir) == [i \in 1..Len(ScanEntries(dir)) |-> ScanEntries(dir)[i].ds]

\* Names of folders InteleViewer names after the study UID.
UidNames == {<<"1", ".", "2">>, <<"1", ".", "3">>, <<"2", ".", "5">>}

\* The studies found in the folders.
ScanDatasets == {DsDoeCT, DsSmithCT, DsDoeMR, DsNoName}

\* What there is under one UID name: nothing, a study folder with a
\* modification time, or a study folder os.path.getmtime fails on (one that
\* holds the accession RA-1-CT).
FolderStates ==
  {[present |-> FALSE, statable |-> FALSE, mtime |-> 1, ds |-> DsNoName]}
  \cup
  {[present |-> TRUE, statable |-> TRUE, mtime |-> t, ds |-> ds] :
     t \in 1..MaxMtime, ds \in ScanDatasets}
  \cup
  {[present |-> TRUE, statable |-> FALSE, mtime |-> 1, ds |-> DsDoeCT]}

\* The UID-named study folders of an assignment of states to the UID names.
UidFolders(f) ==
  {[name |-> n, isdir |-> TRUE, statable |-> f[n].statable, mtime |-> f[n].mtime,
    ds |-> f[n].ds] : n \in {m \in UidNames : f[m].present}}

\* Children that are no UID-named study folder, each newer than every study
\* folder and holding a study of the accession RA-1-CT: a folder whose name
\* has no period, a named folder, and a file with a UID-like name.
OtherChildren ==
  {[name |-> <<"1", "2">>, isdir |-> TRUE, statable |-> TRUE,
    mtime |-> MaxMtime + 1, ds |-> DsDoeCT],
   [name |-> <<"S", "p", "o", "o", "l", ".", "1">>, isdir |-> TRUE, statable |-> TRUE,
    mtime |-> MaxMtime + 1, ds |-> DsDoeCT],
   [name |-> <<"1", ".", "9">>, isdir |-> FALSE, statable |-> TRUE,
    mtime |-> MaxMtime + 1, ds |-> DsDoeCT]}

\* The listings of the cache directory: no two children share a name.
Listings ==
  {UidFolders(f) \cup o : f \in [UidNames -> FolderStates], o \in SUBSET OtherChildren}

\* A directory that holds a matching study folder and cannot be scanned.
FullListing ==
  {[name |-> <<"1", ".", "2">>, isdir |-> TRUE, statable |-> TRUE, mtime |-> 1,
    ds |-> DsDoeCT]}

InitScan ==
  /\ Constructed
  /\ Acquired
  /\ last_patient_title = EmptyStr
  /\ psone_log = [exists |-> FALSE, mtime |-> 0, lines |-> << >>]
  /\ logReadable = TRUE
  /\ folders = << >>
  /\ cache_size = CacheSize
  /\ \/ cache_dir \in {[state |-> "ok", children |-> c] : c \in Listings}
     \/ cache_dir \in {[state |-> st, children |-> FullListing] :
                         st \in {"missing", "unreadable"}}
  /\ call \in {[fn |-> "_find_in_recent_folders", target_acc |-> t] : t \in {AccCT, AccMR}}
  /\ ret = NoReturn

\* self._find_in_recent_folders(target_acc)
FindInRecentFoldersCall ==
  /\ call.fn = "_find_in_recent_folders"
  /\ ret = NoReturn
  /\ IF cache_dir.state /= "ok"
       THEN /\ ret' = Returned(None)
            /\ UNCHANGED folders
       ELSE /\ folders' = ScanFolders(cache_dir)
            /\ ret' = Returned(FindInFolders(ScanFolders(cache_dir), call.target_acc))
  /\ UNCHANGED <<monitorVars, windowVars, logTail, reset_calls, psone_log, now,
                 tickPc, watcherVars, tickReset, dataDirFault, logReadable, out,
                 tmp_file, pubPc, lockVars, cache_size, cache_dir, call>>

NextScan == FindInRecentFoldersCall

SpecScan == InitScan /\ [][NextScan]_vars

\* ----------------------------------------------------------------------
\* _parse_psone_log on its own: a log of up to MaxParseLines lines, each
\* split into its fields, that can or cannot be opened.
\* ----------------------------------------------------------------------

\* A line without accession.
LineNoise == <<<<"f", "o", "o">>, <<"b", "a", "r">>>>

\* "SingleAccession -" followed by a token of accession shape.
LineDashPattern == <<SingleAccession, <<"-">>, AccMR>>

\* "SingleAccession N/A"
LineSingleNA == <<SingleAccession, NotAvailable>>

\* "SingleAccession" as the last token of the line.
LineSingleLast == <<<<"f", "o", "o">>, SingleAccession>>

\* "SingleAccession 123": a value that has not the shape of an accession.
LineSinglePlain == <<SingleAccession, <<"1", "2", "3">>>>

\* "SingleAccession - SingleAccession 123"
LineTwoSingles == <<SingleAccession, <<"-">>, SingleAccession, <<"1", "2", "3">>>>

\* A token of accession shape before "SingleAccession <accession>".
LinePatternThenSingle == <<AccMR, SingleAccession, AccCTSplit>>

\* A split accession alone: the suffix breaks the accession shape.
LineSplitOnly == <<<<"f", "o", "o">>, AccCTSplit>>

\* The lines of the logs parsed, the empty line among them.
ParseLines ==
  {LineSingleCT, LinePatternMR, LineDash, LineNoise, LineDashPattern, LineSingleNA,
   LineSingleLast, LineSinglePlain, LineTwoSingles, LinePatternThenSingle,
   LineSplitOnly, << >>}

InitParse ==
  /\ Constructed
  /\ Acquired
  /\ last_patient_title = EmptyStr
  /\ psone_log \in {[exists |-> TRUE, mtime |-> 1, lines |-> ls] :
                       ls \in UNION {[1..n -> ParseLines] : n \in 0..MaxParseLines}}
  /\ logReadable \in BOOLEAN
  /\ folders = << >>
  /\ cache_size = CacheSize
  /\ cache_dir = EmptyDir
  /\ call = [fn |-> "_parse_psone_log"]
  /\ ret = NoReturn

\* DicomMonitor._parse_psone_log(log_path)
ParsePsoneLogCall ==
  /\ call.fn = "_parse_psone_log"
  /\ ret = NoReturn
  /\ ret' = Returned(FaultParsePsoneLog)
  /\ UNCHANGED <<monitorVars, windowVars, logTail, reset_calls, envVars, tickPc,
                 watcherVars, tickReset, dataDirFault, logReadable, out,
                 tmp_file, pubPc, lockVars, cache_size, cache_dir, call>>

NextParse == ParsePsoneLogCall

SpecParse == InitParse /\ [][NextParse]_vars

\* ----------------------------------------------------------------------
\* _extract_fields on its own: a dataset whose tags are drawn in the initial
\* state; a tag can be missing.
\* ----------------------------------------------------------------------

\* Values of the Modality tag: clinical, not clinical, lower case, padded, empty.
ModalityTags ==
  {<<"C", "T">>,
   <<"S", "R">>,
   <<"-", "-">>,
   <<"c", "t">>,
   <<" ", "M", "R", " ">>,
   EmptyStr}

\* Values of the AccessionNumber tag: with a modality code, split, with a code
\* that is not delimited, with two codes, without code, the placeholder.
AccessionTags ==
  {<<"R", "A", "D", "-", "1", "-", "M", "R">>,
   <<"R", "A", "-", "1", "-", "C", "T", "_", "2">>,
   <<"X", "-", "M", "R", "X">>,
   <<"A", "-", "U", "S", "-", "C", "T">>,
   <<"1", "2", "3", "4", "5">>,
   <<"N", "/", "A">>}

\* Values of the StudyDescription tag: one or two keywords, a keyword inside a
\* word, lower case, the placeholder, no keyword.
DescriptionTags ==
  {<<"P", "E", "T", " ", "C", "T", " ", "W", "H", "O", "L", "E", " ", "B", "O", "D", "Y">>,
   <<"C", "T">>,
   <<"A", "C", "T", "I", "V", "E">>,
   <<"m", "r", "i", " ", "b", "r", "a", "i", "n">>,
   <<"M", "R", " ", "U", "S">>,
   <<"U", "S", " ", "X", "R", "A", "Y">>,
   <<"U", "L", "T", "R", "A", "S", "O", "U", "N", "D", " ", "X", "-", "R", "A", "Y">>,
   <<"R", "A", "D", "I", "O", "G", "R", "A", "P", "H", " ", "M", "A", "M", "M", "O">>,
   <<"M", "A", "M", "M", "O", " ", "S", "P", "E", "C", "T">>,
   <<"N", "U", "C", "L", "E", "A", "R", " ", "A", "N", "G", "I", "O">>,
   <<"F", "L", "U", "O", "R", "O">>,
   <<"F", "D", "G", " ", "C", "T">>,
   <<"N", "/", "A">>,
   <<"C", "H", "E", "S", "T">>}

\* Values of the PatientSex tag.
SexTags ==
  {<<"M">>,
   <<"F">>,
   <<"O">>,
   <<"U">>,
   <<"m">>,
   <<"X">>,
   EmptyStr}

\* The dataset with the tags present that are given: tags is a function from
\* tag names to [present, value].
DatasetOf(tags) ==
  [t \in {n \in DOMAIN tags : tags[n].present} |-> tags[t].value]

\* A tag that is missing, or present with one of the values.
TagStates(values) ==
  {[present |-> FALSE, value |-> EmptyStr]}
    \cup {[present |-> TRUE, value |-> v] : v \in values}

\* The datasets _extract_fields is called with.
ExtractDatasets ==
  {DatasetOf([PatientName |-> [present |-> TRUE, value |-> NameDoe],
              Modality |-> m, AccessionNumber |-> a, StudyDescription |-> d,
              PatientSex |-> x]) :
     m \in TagStates(ModalityTags), a \in TagStates(AccessionTags),
     d \in TagStates(DescriptionTags), x \in TagStates(SexTags)}

InitExtract ==
  /\ Constructed
  /\ Acquired
  /\ last_patient_title = EmptyStr
  /\ psone_log = [exists |-> FALSE, mtime |-> 0, lines |-> << >>]
  /\ logReadable = TRUE
  /\ folders = << >>
  /\ cache_size = CacheSize
  /\ cache_dir = EmptyDir
  /\ call \in {[fn |-> "_extract_fields", ds |-> ds] : ds \in ExtractDatasets}
  /\ ret = NoReturn

\* _extract_fields(ds)
ExtractFieldsCall ==
  /\ call.fn = "_extract_fields"
  /\ ret = NoReturn
  /\ ret' = Returned(ExtractFields(call.ds))
  /\ UNCHANGED <<monitorVars, windowVars, logTail, reset_calls, envVars, tickPc,
                 watcherVars, tickReset, dataDirFault, logReadable, out,
                 tmp_file, pubPc, lockVars, cache_size, cache_dir, call>>

NextExtract == ExtractFieldsCall

SpecExtract == InitExtract /\ [][NextExtract]_vars

\* ----------------------------------------------------------------------
\* _write_state on its own, the data directory writable: records with
\* allowed and other keys, a key absent, empty, or holding control
\* characters, written one after the other over the same state file.
\* ----------------------------------------------------------------------

\* The values a field of the record can hold.
FieldValues == {EmptyStr, <<"A">>, <<"A", CTL, "B">>, <<CTL>>}

\* The keys of the records: three allowed keys and the patient name.
WriteKeys == {"Acc", "Sex", "StudyDesc", "_Name"}

\* The records handed to _write_state.
WriteInputs == UNION {[ks -> FieldValues] : ks \in SUBSET WriteKeys}

InitWrite ==
  /\ Constructed
  /\ Acquired
  /\ last_patient_title = EmptyStr
  /\ psone_log = [exists |-> FALSE, mtime |-> 0, lines |-> << >>]
  /\ logReadable = TRUE
  /\ folders = << >>
  /\ cache_size = CacheSize
  /\ cache_dir = EmptyDir
  /\ call = NoCall
  /\ ret = NoReturn

\* DicomMonitor._write_state(data)
WriteStateCall ==
  /\ \E data \in WriteInputs :
       /\ call' = [fn |-> "_write_state", data |-> data]
       /\ state_file' = WriteState(data)
  /\ ret' = Returned(None)
  /\ UNCHANGED <<search_active, search_start, search_target_acc, current_locked_acc,
                 last_psone_mtime, cache, result, windowVars, logTail, reset_calls,
                 envVars, tickPc, watcherVars, tickReset, dataDirFault, logReadable,
                 out, tmp_file, pubPc, lockVars, cache_size, cache_dir>>

NextWrite == WriteStateCall

SpecWrite == InitWrite /\ [][NextWrite]_vars

\* ----------------------------------------------------------------------
\* The tick loop with a record of what each tick found: whether the monitor
\* was idle when the tick began and the window label it read has the
\* leading name component of the label before, and the stamp of the vendor
\* log at the latest fallback poll.
\* ----------------------------------------------------------------------

\* Whether PSOnePerf.log exists and its modification time.
LogStamp == [exists |-> psone_log.exists, mtime |-> psone_log.mtime]

\* The search state, the LRU cache and the state file.
Snapshot ==
  [active |-> search_active, start |-> search_start, target |-> search_target_acc,
   locked |-> current_locked_acc, cache |-> cache, file |-> state_file]

InitIdle ==
  /\ Constructed
  /\ Acquired
  /\ last_patient_title = EmptyStr
  /\ psone_log = [exists |-> FALSE, mtime |-> 0, lines |-> << >>]
  /\ logReadable = TRUE
  /\ folders = << >>
  /\ cache_size = CacheSize
  /\ cache_dir = EmptyDir
  /\ call = [fn |-> "tick", quiet |-> FALSE, log |-> LogStamp]
  /\ ret = NoReturn

\* win_mon.check_patient_safety(monitor), the first call of the tick
IdleCheckPatientSafety ==
  /\ tickPc = "safety"
  /\ \E title \in WindowTitles :
       /\ CheckPatientSafetyBody(title)
       /\ call' = [call EXCEPT !.quiet =
                     /\ ~search_active
                     /\ ExtractLastName(title) = ExtractLastName(last_patient_title)]
  /\ tickPc' = "poll"
  /\ UNCHANGED <<envVars, watcherVars, tickReset, dataDirFault, logReadable, out,
                 tmp_file, pubPc, lockVars, cache_size, cache_dir, ret>>

\* monitor.on_psone_log_changed(), the second call of the tick
IdleFallbackPoll ==
  /\ tickPc = "poll"
  /\ OnPsoneLogChanged
  /\ call' = [call EXCEPT !.quiet = call.quiet /\ LogStamp = call.log,
                          !.log = LogStamp]
  /\ tickPc' = "search"
  /\ UNCHANGED <<windowVars, envVars, watcherVars, tickReset, dataDirFault,
                 logReadable, out, tmp_file, pubPc, lockVars, cache_size, cache_dir, ret>>

\* A study arrives between ticks; one study fewer than in Spec is enough
\* for a search to lock, to mismatch or to find nothing.
FewFoldersArrive ==
  /\ Len(folders) < MaxFolders - 1
  /\ FolderArrives

\* time.sleep(timer_interval): the tick is over.
IdleSleep ==
  /\ tickPc = "sleep"
  /\ now < MaxTime
  /\ now' = now + 1
  /\ tickPc' = "safety"
  /\ call' = [call EXCEPT !.quiet = FALSE]
  /\ UNCHANGED <<monitorVars, windowVars, logTail, reset_calls, psone_log, folders,
                 watcherVars, tickReset, dataDirFault, logReadable, out, tmp_file,
                 pubPc, lockVars, cache_size, cache_dir, ret>>

NextIdle ==
  \/ IdleCheckPatientSafety
  \/ IdleFallbackPoll
  \/ ContinueSearch
  \/ IdleSleep
  \/ Shutdown
  \/ WatchdogOnModified
  \/ AppendLog
  \/ FewFoldersArrive

SpecIdle == InitIdle /\ [][NextIdle]_vars

\* ----------------------------------------------------------------------
\* The start and the end of service processes: each runs _acquire_lock
\* (the check of the lock file, then the write of its PID), the tick loop,
\* and _release_lock at exit. The processes are separate, so the steps of
\* one interleave with the steps of another. The lock file found at the
\* first start is absent, stale or corrupt.
\* ----------------------------------------------------------------------

\* The texts a lock file can hold: a PID, a PID and a newline, no number,
\* nothing.
LockTexts ==
  {Str(p) : p \in InstancePids \cup {OtherPid}}
    \cup {Str(OtherPid) \o <<CTL>>, <<"x">>, EmptyStr}

InitLock ==
  /\ Constructed
  /\ last_patient_title = EmptyStr
  /\ psone_log = [exists |-> FALSE, mtime |-> 0, lines |-> << >>]
  /\ logReadable = TRUE
  /\ folders = << >>
  /\ cache_size = CacheSize
  /\ cache_dir = EmptyDir
  /\ call = NoCall
  /\ ret = NoReturn
  /\ lock_file \in {NoLock} \cup {[exists |-> TRUE, text |-> t] : t \in LockTexts}
  /\ instances = [p \in InstancePids |-> "off"]
  /\ others \in {"dead", "live", "foreign"}

\* What a step of a process leaves alone: the monitor, not yet constructed
\* or of another process.
LockFrame ==
  UNCHANGED <<monitorVars, windowVars, logTail, reset_calls, envVars, tickPc,
              watcherVars, tickReset, dataDirFault, logReadable, out, tmp_file,
              pubPc, cache_size, cache_dir, call, ret>>

\* python dicom_service.py: main runs up to _acquire_lock
StartProcess(p) ==
  /\ instances[p] \notin AlivePcs
  /\ instances' = [instances EXCEPT ![p] = "check"]
  /\ UNCHANGED <<lock_file, others>>
  /\ LockFrame

\* _acquire_lock up to the write: os.path.isfile, the read, int(),
\* _pid_exists; sys.exit(0) if the PID is alive.
AcquireCheck(p) ==
  /\ instances[p] = "check"
  /\ LET old == ParsePid(lock_file.text)
     IN instances' =
          [instances EXCEPT ![p] =
             IF lock_file.exists /\ old.ok /\ PidExists(old.pid)
               THEN "exited" ELSE "write"]
  /\ UNCHANGED <<lock_file, others>>
  /\ LockFrame

\* with open(LOCK_FILE, "w") as fh: fh.write(str(os.getpid())); main goes
\* on to the tick loop.
AcquireWrite(p) ==
  /\ instances[p] = "write"
  /\ lock_file' = LockOf(p)
  /\ instances' = [instances EXCEPT ![p] = "running"]
  /\ UNCHANGED others
  /\ LockFrame

\* The loop ends and atexit runs _release_lock: os.unlink, OSError ignored.
ReleaseLock(p) ==
  /\ instances[p] = "running"
  /\ lock_file' = NoLock
  /\ instances' = [instances EXCEPT ![p] = "stopped"]
  /\ UNCHANGED others
  /\ LockFrame

\* The process is killed: no atexit handler runs.
KillProcess(p) ==
  /\ instances[p] \in AlivePcs
  /\ instances' = [instances EXCEPT ![p] = "killed"]
  /\ UNCHANGED <<lock_file, others>>
  /\ LockFrame

\* The other program starts or ends, as the caller or as another user.
OtherChanges ==
  /\ others' \in {"dead", "live", "foreign"} \ {others}
  /\ UNCHANGED <<lock_file, instances>>
  /\ LockFrame

NextLock ==
  \/ \E p \in InstancePids : StartProcess(p)
  \/ \E p \in InstancePids : AcquireCheck(p)
  \/ \E p \in InstancePids : AcquireWrite(p)
  \/ \E p \in InstancePids : ReleaseLock(p)
  \/ \E p \in InstancePids : KillProcess(p)
  \/ OtherChanges

SpecLock == InitLock /\ [][NextLock]_vars

\* ----------------------------------------------------------------------
\* Start-up of the service after the lock: main reads the configuration,
\* constructs the monitor with keyword arguments and schedules the watchdog
\* observer, then enters the tick loop. A path is the sequence of its
\* components.
\* ----------------------------------------------------------------------

\* The keyword-only parameters of DicomMonitor.__init__.
InitParams == {"cache_dir", "data_dir", "search_timeout", "cache_size", "max_scan_folders"}

\* DATA_DIR of dicom_service.
DataDir == <<"service", "data">>

\* dicom_monitor._psone_log_path(): the log on_psone_log_changed reads,
\* derived from %USERPROFILE%; "" without it.
PsoneLogPath(profile) ==
  IF profile = << >> THEN << >>
  ELSE profile \o <<"AppData", "Local", "Nuance", "PowerScribeOne", "Logs", "Perf",
                    "PSOnePerf.log">>

\* os.path.dirname
Dirname(path) == IF path = << >> THEN << >> ELSE SubSeq(path, 1, Len(path) - 1)

\* dicom_service._psone_log_dir(perf_log_path): the directory the observer
\* is scheduled on.
PsoneLogDir(perf_log_path, profile) ==
  IF perf_log_path /= << >> THEN Dirname(perf_log_path)
  ELSE IF profile = << >> THEN << >>
  ELSE profile \o <<"AppData", "Local", "Nuance", "PowerScribeOne", "Logs", "Perf">>

\* The keyword arguments main passes to DicomMonitor.
MonitorKwargs(cfg) ==
  [cache_dir |-> cfg.dicom_cache_directory,
   data_dir |-> DataDir,
   search_timeout |-> cfg.search_timeout,
   cache_size |-> cfg.cache_size,
   max_scan_folders |-> cfg.max_scan_folders,
   perf_log_path |-> cfg.perf_log_path]

\* DicomMonitor(**kwargs): a keyword that is no parameter raises TypeError;
\* otherwise the monitor's configured fields.
NewMonitor(kwargs) ==
  IF DOMAIN kwargs \subseteq InitParams
    THEN [raised |-> "none",
          cache_dir |-> kwargs.cache_dir,
          search_timeout |-> kwargs.search_timeout,
          cache_size |-> kwargs.cache_size,
          max_scan_folders |-> kwargs.max_scan_folders]
    ELSE [raised |-> "TypeError"]

\* %USERPROFILE% of the process: unset, or the user's profile directory.
Profiles == {<< >>, <<"C:", "Users", "rad">>}

\* The configurations _read_config can return.
Configs ==
  [timer_interval : {2},
   dicom_cache_directory : {<<"C:", "Intelerad", "InteleViewerDicom">>, <<"D:", "cache">>},
   search_timeout : 1..(SearchTimeout + 1),
   cache_size : 1..MaxCacheSize,
   max_scan_folders : 1..MaxScanFolders,
   perf_log_path : {<< >>, PsoneLogPath(<<"C:", "Users", "rad">>),
                    <<"E:", "logs", "PSOnePerf.log">>}]

InitStart ==
  /\ Constructed
  /\ Acquired
  /\ last_patient_title = EmptyStr
  /\ psone_log = [exists |-> FALSE, mtime |-> 0, lines |-> << >>]
  /\ logReadable = TRUE
  /\ folders = << >>
  /\ cache_size = CacheSize
  /\ cache_dir = EmptyDir
  /\ call \in {[fn |-> "main", cfg |-> cfg, profile |-> profile] :
                 cfg \in Configs, profile \in Profiles}
  /\ ret = NoReturn

\* main from _read_config to the tick loop. An exception of the constructor
\* is not caught: the process ends, and atexit releases the lock.
MainStart ==
  /\ call.fn = "main"
  /\ ret = NoReturn
  /\ LET monitor == NewMonitor(MonitorKwargs(call.cfg))
     IN IF monitor.raised = "none"
          THEN /\ ret' = Returned([at |-> "loop", monitor |-> monitor,
                                   watched |-> PsoneLogDir(call.cfg.perf_log_path,
                                                           call.profile),
                                   read |-> PsoneLogPath(call.profile)])
               /\ UNCHANGED lockVars
          ELSE /\ ret' = Returned([at |-> monitor.raised])
               /\ lock_file' = NoLock
               /\ instances' = [instances EXCEPT ![1] = "stopped"]
               /\ UNCHANGED others
  /\ UNCHANGED <<monitorVars, windowVars, logTail, reset_calls, envVars, tickPc,
                 watcherVars, tickReset, dataDirFault, logReadable, out, tmp_file,
                 pubPc, cache_size, cache_dir, call>>

NextStart == MainStart

SpecStart == InitStart /\ [][NextStart]_vars

\* ----------------------------------------------------------------------
\* The tick loop with a failing publish, started when the vendor log
\* already names a study: the first tick starts a search, and the clock
\* runs long enough for it to time out.
\* ----------------------------------------------------------------------

InitDeadline ==
  /\ Constructed
  /\ Acquired
  /\ last_patient_title = EmptyStr
  /\ psone_log = [exists |-> TRUE, mtime |-> 1, lines |-> <<LineSingleCT>>]
  /\ logReadable = TRUE
  /\ folders = << >>
  /\ cache_size = CacheSize
  /\ cache_dir = EmptyDir
  /\ call = NoCall
  /\ ret = NoReturn

NextDeadline ==
  \/ FaultCheckPatientSafety
  \/ FaultFallbackPoll
  \/ FaultContinueSearch
  \/ Sleep
  \/ TickAppendLog
  \/ FewFoldersArrive
  \/ DataDirFaultChanges

SpecDeadline == InitDeadline /\ [][NextDeadline]_vars

\* ----------------------------------------------------------------------
\* The tick loop on a cache directory in which any of the studies can
\* arrive, also one whose first file has no PatientName tag.
\* ----------------------------------------------------------------------

\* InteleViewer stores a study, with or without a patient name.
AnyFolderArrives ==
  /\ UNCHANGED extVars
  /\ tickPc = "sleep"
  /\ Len(folders) < MaxFolders
  /\ \E ds \in Datasets : folders' = <<ds>> \o folders
  /\ UNCHANGED <<monitorVars, windowVars, logTail, reset_calls,
                 psone_log, now, tickPc, watcherVars>>

NextEntries ==
  \/ CheckPatientSafety
  \/ FallbackPoll
  \/ ContinueSearch
  \/ Sleep
  \/ TickAppendLog
  \/ AnyFolderArrives

SpecEntries == Init /\ [][NextEntries]_vars

\* ----------------------------------------------------------------------
\* Claims
\* ----------------------------------------------------------------------

\* Both threads are between operations.
Quiescent == wPc = "idle" /\ tickPc \in {"safety", "poll", "search", "sleep", "stopped"}

\* The state file holds a document with at least one field.
PublishedNonEmpty == state_file /= NoFile /\ state_file /= EmptyDoc

\* The patient names of the studies and the labels of the viewer windows.
PatientNames == {ExtractFields(ds)["_Name"] : ds \in Datasets} \ {UnknownName}

WindowLabels == WindowTitles \ {EmptyStr}

\* The leading name component of label occurs, ignoring case, in name.
LeadingContained(label, name) ==
  Contains(Upper(ExtractLastName(label)), Upper(name))

\* The candidate continue_search finds for the target: the cached record,
\* else the record of the folder scan, else None.
Candidate ==
  IF search_target_acc \in CacheKeys(cache)
    THEN CacheGet(cache, search_target_acc)
    ELSE FindInRecentFolders(search_target_acc)

\* A step of continue_search that gets as far as looking for a candidate.
SearchStep ==
  /\ tickPc = "search"
  /\ tickPc' = "sleep"
  /\ search_active
  /\ now - search_start <= SearchTimeout

\* C1: at the end of every tick in which the published state is
\* non-empty and a window label is known, the leading name component of the
\* locked candidate's patient name equals, ignoring case, the leading name
\* component of the label observed in that tick.
C1_PublishedLeadingNameEqualsLabel ==
  (tickPc = "sleep" /\ PublishedNonEmpty /\ current_title /= EmptyStr) =>
    /\ result /= None
    /\ Upper(ExtractLastName(Get(result, "_Name")))
         = Upper(ExtractLastName(current_title))

\* C2: when continue_search finds a candidate for the target it locks if and
\* only if no window label is known or the label's leading name component is
\* contained, ignoring case, in the candidate's patient name; on a mismatch
\* it does not lock, publishes nothing and stays Searching with the same
\* target.
C2_LocksIffCrossCheckPasses ==
  [][(SearchStep /\ Candidate /= None) =>
       IF \/ last_patient_title = EmptyStr
          \/ LeadingContained(last_patient_title, Get(Candidate, "_Name"))
         THEN /\ current_locked_acc' = search_target_acc
              /\ ~search_active'
              /\ state_file' = WriteState(Candidate)
         ELSE /\ current_locked_acc' = EmptyStr
              /\ state_file' = state_file
              /\ search_active'
              /\ search_target_acc' = search_target_acc]_vars

\* C2 witness: a tick found a candidate named DOE^J for the target while the
\* window showed SMITH^J, and the search goes on with nothing published.
C2_Witness ==
  /\ tickPc = "sleep"
  /\ search_active
  /\ current_locked_acc = EmptyStr
  /\ state_file = EmptyDoc
  /\ last_patient_title = TitleSmith
  /\ search_target_acc \in CacheKeys(cache)
  /\ Get(CacheGet(cache, search_target_acc), "_Name") = NameDoe
  /\ \E i \in 1..Len(logTail) : logTail[i].level = "WARNING"

\* C3: OnSourceChanged on the watcher thread and ContinueSearch on the tick
\* thread are safe to interleave: between operations, a locked accession is
\* the normalized accession of the candidate that was matched, and the state
\* file holds that candidate's published fields.
C3_InterleavingKeepsLockConsistent ==
  (Quiescent /\ current_locked_acc /= EmptyStr) =>
    /\ result /= None
    /\ ExtractCoreAcc(Get(result, "Acc")) = current_locked_acc
    /\ state_file = WriteState(result)

\* C4: the published document contains only keys from Acc, Sex, Age, Mod,
\* StudyDesc, and neither a patient name nor a window label occurs in any of
\* its values.
C4_OnlyAllowedKeysNoName ==
  state_file /= NoFile =>
    /\ DOMAIN state_file \subseteq AllowedKeys
    /\ \A k \in DOMAIN state_file :
         \A n \in PatientNames \cup WindowLabels : ~Contains(n, state_file[k])

\* C4 witness: a record carrying _Name and _source was published.
C4_Witness ==
  /\ PublishedNonEmpty
  /\ result /= None
  /\ {"_Name", "_source"} \subseteq DOMAIN result
  /\ state_file = WriteState(result)

\* C5: no operation of the core writes the candidate's patient name or the
\* window's patient label to a log record.
C5_NoNameInLogRecords ==
  \A i \in 1..Len(logTail) :
    \A j \in 1..Len(logTail[i].args) :
      logTail[i].args[j] \notin PatientNames \cup WindowLabels

\* C6 (as stated): whenever no study is locked the published document is the
\* empty object {}.
C6_UnlockedImpliesEmptyDocument ==
  current_locked_acc = EmptyStr => state_file = EmptyDoc

\* C6 (amended): whenever no study is locked and the state file has been
\* written, the published document is the empty object {}.
C6_UnlockedImpliesEmptyOnceWritten ==
  (current_locked_acc = EmptyStr /\ state_file /= NoFile) => state_file = EmptyDoc

\* C6 witness: a search is in progress after an earlier lock, whose record
\* continue_search still holds, and the document is {}.
C6_Witness ==
  /\ search_active
  /\ current_locked_acc = EmptyStr
  /\ result /= None
  /\ state_file = EmptyDoc

C8_LockedImpliesCheckedMatchPublished ==
  current_locked_acc /= EmptyStr =>
    /\ result /= None
    /\ \E i \in 1..Len(folders) :
         \A k \in DOMAIN ExtractFields(folders[i]) :
           Get(result, k) = ExtractFields(folders[i])[k]
    /\ \/ last_patient_title = EmptyStr
       \/ LeadingContained(last_patient_title, Get(result, "_Name"))
    /\ ExtractCoreAcc(Get(result, "Acc")) = current_locked_acc
    /\ state_file = WriteState(result)
    /\ "Acc" \in DOMAIN state_file

\* C8 witness: a study whose raw accession carries a split suffix is locked
\* from the cache.
C8_Witness ==
  /\ current_locked_acc = AccCT
  /\ result /= None
  /\ Get(result, "Acc") = AccCTSplit
  /\ Get(result, "_source") = SourceCache

\* The search state, the dedup marker and the document after a reset.
Cleared ==
  /\ ~search_active
  /\ search_start = 0
  /\ search_target_acc = EmptyStr
  /\ current_locked_acc = EmptyStr
  /\ last_psone_mtime = 0
  /\ state_file = EmptyDoc

\* C9: reset_state, called from any state, leaves Active false, the target
\* and the locked accession empty, the dedup marker cleared and the document
\* {}; called again in that state it leaves the same state.
C9_ResetClearsAndIsIdempotent ==
  [][(reset_calls' /= << >> /\ tickPc' /= tickPc) =>
       /\ Cleared'
       /\ Cleared =>
            <<search_active, search_start, search_target_acc, current_locked_acc,
              last_psone_mtime, state_file>>'
            = <<search_active, search_start, search_target_acc, current_locked_acc,
                last_psone_mtime, state_file>>]_vars

\* C9 witness: a reset that found a search or a lock to clear, after a
\* study had been matched.
C9_Witness ==
  /\ reset_calls = <<"patient_changed">>
  /\ result /= None
  /\ \E i \in 1..Len(logTail) : logTail[i].msg = "State reset (%s)"

C11_ResetTargetNotLockedInSameTick ==
  (tickPc = "sleep" /\ tickReset.target /= EmptyStr) =>
    ~(current_locked_acc = tickReset.target /\ PublishedNonEmpty)

\* C11 (amended): a tick in which check_patient_safety resets because the
\* window closed ends with no search, nothing locked and the document {};
\* a tick in which it resets because the patient changed ends with an
\* accession locked only if that accession's candidate passed the
\* cross-check against the new window label, and is published.
C11_ResetTickLocksOnlyForNewLabel ==
  (tickPc = "sleep" /\ tickReset /= NoReset) =>
    /\ tickReset.reason = "window_closed" =>
         /\ ~search_active
         /\ current_locked_acc = EmptyStr
         /\ state_file = EmptyDoc
    /\ (tickReset.reason = "patient_changed" /\ current_locked_acc /= EmptyStr) =>
         /\ last_patient_title = current_title
         /\ result /= None
         /\ ExtractCoreAcc(Get(result, "Acc")) = current_locked_acc
         /\ LeadingContained(current_title, Get(result, "_Name"))
         /\ state_file = WriteState(result)

\* C11 witness: the patient changed while RA-1-CT was searched, and the
\* tick ends with RA-1-CT locked for the new patient.
C11_Witness ==
  /\ tickPc = "sleep"
  /\ tickReset = [reason |-> "patient_changed", target |-> AccCT]
  /\ current_locked_acc = AccCT
  /\ current_title = TitleSmith
  /\ PublishedNonEmpty

\* C12: a search whose target is not matched stays Searching on every tick
\* whose elapsed time since the search start is at most the timeout and
\* becomes inactive on the first tick whose elapsed time exceeds it, never
\* earlier (a search ends only by timeout, lock or reset); nothing is locked
\* and the document is {} while it runs and after it timed out.
C12_TimeoutExactlyAfterElapsed ==
  [][/\ (search_active /\ tickPc = "search" /\ tickPc' = "sleep") =>
          IF now - search_start > SearchTimeout
            THEN /\ ~search_active'
                 /\ search_start' = 0
                 /\ current_locked_acc' = EmptyStr
                 /\ state_file' = EmptyDoc
            ELSE result' = None =>
                   /\ search_active'
                   /\ search_start' = search_start
                   /\ search_target_acc' = search_target_acc
                   /\ current_locked_acc' = EmptyStr
                   /\ state_file' = EmptyDoc
     /\ (search_active /\ ~search_active') =>
          \/ tickPc = "search" /\ now - search_start > SearchTimeout
          \/ current_locked_acc' /= EmptyStr
          \/ reset_calls' /= << >>
     /\ search_active' => (current_locked_acc' = EmptyStr /\ state_file' = EmptyDoc)]_vars

\* C12 witness: a tick found the elapsed time above the timeout and ended
\* the search with nothing locked or published.
C12_Witness ==
  /\ tickPc = "sleep"
  /\ ~search_active
  /\ search_target_acc /= EmptyStr
  /\ current_locked_acc = EmptyStr
  /\ state_file = EmptyDoc
  /\ now > SearchTimeout + 1
  /\ \E i \in 1..Len(logTail) : logTail[i].msg = "Search timed out for %s"

\* A study folder within the scan range carries the target's accession and
\* a patient name that passes the cross-check against the stored label.
PassingFolderInRange ==
  \E i \in 1..Len(folders) :
    /\ i <= MaxScanFolders
    /\ ExtractFields(folders[i])["_Name"] /= UnknownName
    /\ ExtractCoreAcc(ExtractFields(folders[i])["Acc"]) = search_target_acc
    /\ \/ last_patient_title = EmptyStr
       \/ LeadingContained(last_patient_title, ExtractFields(folders[i])["_Name"])

\* An earlier tick found a candidate for the target whose patient name does
\* not pass the cross-check against the stored label: _try_match cached it.
AfterMismatch ==
  /\ search_target_acc \in CacheKeys(cache)
  /\ last_patient_title /= EmptyStr
  /\ ~LeadingContained(last_patient_title,
                       Get(CacheGet(cache, search_target_acc), "_Name"))

\* C13: after a cross-check mismatch the search stays Searching and the
\* match is not consumed: a later tick of the same search, with the label
\* unchanged, finds and locks a different folder that carries the same
\* accession and a patient name passing the check.
C13_MismatchDoesNotBlockCorrectFolder ==
  [][(SearchStep /\ AfterMismatch /\ PassingFolderInRange) =>
       /\ current_locked_acc' = search_target_acc
       /\ result' /= None
       /\ ~search_active']_vars

\* A step of on_psone_log_changed that gets past the window guard and the
\* modification-time dedup, and so parses the log.
LogParsedStep ==
  /\ last_patient_title /= EmptyStr
  /\ psone_log.exists
  /\ psone_log.mtime /= last_psone_mtime
  /\ last_psone_mtime' = psone_log.mtime

\* C14: the trigger dedup compares only against the currently active target
\* and the currently locked accession: when no search is active (as after a
\* timeout of a search for X) and the log, with a changed modification time
\* and the patient window open, names an accession that is not locked (X
\* again), a search for it starts at once.
C14_RetriggerAfterTimeoutRestarts ==
  [][(/\ LogParsedStep
      /\ ~search_active
      /\ ParsePsoneLog(psone_log.lines) /= EmptyStr
      /\ ParsePsoneLog(psone_log.lines) /= current_locked_acc) =>
       /\ search_active'
       /\ search_target_acc' = ParsePsoneLog(psone_log.lines)
       /\ search_start' = now]_vars

\* C15: a search is started only while a patient window is known to be
\* open: in every reachable state, those reached when the watchdog thread's
\* on_psone_log_changed interleaves with the tick's check_patient_safety
\* included, an active search implies a non-empty stored window label.
C15_ActiveImpliesWindowKnown ==
  search_active => last_patient_title /= EmptyStr

\* C16: on_psone_log_changed is a no-op when the log's modification time
\* equals the last-seen one (the log is not parsed), and when the parsed
\* accession equals the target or the locked accession it does not restart:
\* Active, the start time, the target, the locked accession and the document
\* are left unchanged.
C16_DedupLeavesSearchUnchanged ==
  [][(tickPc = "poll" /\ tickPc' = "search") =>
       /\ psone_log.mtime = last_psone_mtime =>
            /\ UNCHANGED <<search_active, search_start, search_target_acc,
                           current_locked_acc, last_psone_mtime, cache, state_file>>
            /\ logTail' = << >>
       /\ (/\ last_patient_title /= EmptyStr
           /\ psone_log.exists
           /\ psone_log.mtime /= last_psone_mtime
           /\ ParsePsoneLog(psone_log.lines) \in {search_target_acc, current_locked_acc}) =>
            UNCHANGED <<search_active, search_start, search_target_acc,
                        current_locked_acc, cache, state_file>>]_vars

\* C16 witness: the log was appended to during a search and names the
\* target again; on_psone_log_changed parsed it and the search, started on
\* an earlier tick, goes on.
C16_Witness ==
  /\ tickPc = "search"
  /\ search_active
  /\ search_start < now
  /\ psone_log.mtime = 2
  /\ last_psone_mtime = psone_log.mtime
  /\ \E i \in 1..Len(logTail) : logTail[i].args = <<search_target_acc>>
  /\ state_file = EmptyDoc

\* C17: at most one search exists: a trigger for an accession other than the
\* active target while Searching replaces the search (the target becomes the
\* new accession, the start time restarts, the document is {}), and only
\* the target of the active search is ever locked, so an abandoned target
\* is not locked unless it is triggered again.
C17_NewTriggerReplacesSearch ==
  [][/\ (/\ LogParsedStep
         /\ search_active
         /\ ParsePsoneLog(psone_log.lines) \notin {EmptyStr, search_target_acc}) =>
          /\ search_active'
          /\ search_target_acc' = ParsePsoneLog(psone_log.lines)
          /\ search_start' = now
          /\ current_locked_acc' = EmptyStr
          /\ state_file' = EmptyDoc
     /\ (search_active /\ search_active' /\ search_target_acc' /= search_target_acc) =>
          /\ LogParsedStep
          /\ search_target_acc' = ParsePsoneLog(psone_log.lines)
     /\ (current_locked_acc' /= EmptyStr /\ current_locked_acc' /= current_locked_acc) =>
          /\ search_active
          /\ tickPc = "search"
          /\ current_locked_acc' = search_target_acc]_vars

\* C17 witness: the search for RA-1-CT, whose candidate was found and
\* rejected, has been replaced by a search for RA-2-MR started later.
C17_Witness ==
  /\ search_active
  /\ search_target_acc = AccMR
  /\ search_start = 2
  /\ current_locked_acc = EmptyStr
  /\ AccCT \in CacheKeys(cache)
  /\ "_source" \notin DOMAIN CacheGet(cache, AccCT)
  /\ Len(psone_log.lines) = 2
  /\ \E i \in 1..Len(logTail) : logTail[i].msg = "Starting DICOM search for %s"

\* C18: a reader of the state file never observes a partial document: at
\* every statement of _write_state, a kill between the writing of the
\* temporary file and the rename included, the state file holds the whole
\* previous document or the whole new one.
C18_StateFileNeverPartial ==
  [][/\ state_file' = state_file \/ (pubPc = "replace" /\ state_file' = out)
     /\ state_file' = NoFile \/ \E data \in PublishInputs : state_file' = WriteState(data)]_vars

\* C18 witness: the process was killed after the temporary file was
\* written whole and before the rename; the state file holds the previous
\* document, which differs from the new one.
C18_Witness ==
  /\ pubPc = "dead"
  /\ tmp_file /= NoFile
  /\ tmp_file.closed
  /\ state_file /= NoFile
  /\ state_file /= EmptyDoc
  /\ state_file /= out

\* C19: a failure at any step of _write_state is logged and not raised to
\* the caller, and the transition that called it completes; in particular a
\* failed publish during a lock never leaves the search active together
\* with a non-empty locked accession.
C19_PublishFailureNotRaised ==
  /\ \A i \in 1..Len(logTail) : logTail[i].msg /= "Error in main loop tick"
  /\ current_locked_acc /= EmptyStr => ~search_active

\* C20: a tick in which the vendor log cannot be read changes no state
\* (search state, dedup marker, document), so that once the log is readable
\* again, with the same modification time, a later tick picks up its
\* accession.
C20_UnreadableLogChangesNothing ==
  [][(tickPc = "poll" /\ tickPc' /= "poll" /\ psone_log.exists /\ ~logReadable) =>
       UNCHANGED <<search_active, search_start, search_target_acc,
                   current_locked_acc, last_psone_mtime, state_file>>]_vars

\* The strings of the accessions and of what _extract_core_acc returns.
IsString(v) == v \in Seq(AccAlphabet \cup UpperLetters \cup Digits \cup {"/"})

\* C21: Normalize is total and idempotent: for every input (empty, None,
\* "N/A", several "_<digits>" suffixes, several modality codes) it returns a
\* string, and Normalize(Normalize(x)) = Normalize(x).
C21_NormalizeTotalAndIdempotent ==
  (call.fn = "_extract_core_acc" /\ ret /= NoReturn) =>
    /\ IsString(ret.value)
    /\ call.nth = 2 => ret.value = call.acc

\* s is a split suffix: an underscore and one or more digits.
IsSplitSuffix(s) ==
  /\ Len(s) >= 2
  /\ s[1] = "_"
  /\ \A j \in 2..Len(s) : s[j] \in Digits

\* The ends of "<prefix>-<M>" in x when x is "<prefix>-<M>" alone or followed
\* by one split suffix, the prefix not empty.
ModalityFormEnds(x) ==
  {e \in 4..Len(x) :
     /\ x[e - 2] = "-"
     /\ SubSeq(x, e - 1, e) \in ClinicalModalities
     /\ (e = Len(x) \/ IsSplitSuffix(Drop(x, e)))}

\* The rule table of Normalize.
RuleTable(x) ==
  IF x = NoneStr \/ x = EmptyStr \/ x = NotAvailable THEN EmptyStr
  ELSE IF ModalityFormEnds(x) /= {} THEN Take(x, Min(ModalityFormEnds(x)))
  ELSE IF \E i \in 1..Len(x) : IsSplitSuffix(Drop(x, i - 1))
    THEN Take(x, (CHOOSE i \in 1..Len(x) : IsSplitSuffix(Drop(x, i - 1))) - 1)
  ELSE x

\* C22: Normalize follows its rule table: '' for empty, None and "N/A"; the
\* text up to and including the modality code for "<prefix>-<M>" with or
\* without a split suffix; otherwise a trailing "_<digits>" is stripped;
\* otherwise the input is returned unchanged.
C22_NormalizeFollowsRuleTable ==
  (call.fn = "_extract_core_acc" /\ call.nth = 1 /\ ret /= NoReturn) =>
    ret.value = RuleTable(call.acc)

\* C23: after any sequence of cache insertions and lookups the cache never
\* holds more entries than its capacity, for every capacity from 1 up.
C23_CacheNeverExceedsCapacity == Len(cache) <= cache_size

\* A cache of capacity 1 that has just evicted an entry for a new one.
C23_Witness ==
  /\ cache_size = 1
  /\ Len(cache) = 1
  /\ call.fn = "_add_to_cache"
  /\ \E i \in 1..Len(logTail) : logTail[i].msg = "Evicted %s from cache"

\* A step of _add_to_cache (a repeated call that changes nothing aside).
PutStep == call'.fn = "_add_to_cache" /\ (call' /= call \/ cache' /= cache)

\* C24: Put inserts or updates the key and makes it the most recently used
\* entry; an insert that exceeds the capacity evicts exactly the least
\* recently used entry, and no other entry is removed or reordered.
C24_PutMarksRecentEvictsOldest ==
  [][PutStep =>
       LET entry == [key |-> call'.accession, data |-> call'.data]
           rest  == SelectSeq(cache, LAMBDA e : e.key /= entry.key)
       IN /\ cache'[Len(cache')] = entry
          /\ cache' = IF Len(rest) + 1 > cache_size
                         THEN Append(Tail(rest), entry)
                         ELSE Append(rest, entry)]_vars

\* Capacity 3: after A, B, C, A, D the cache holds C, A, D in this order: B,
\* not A, was evicted.
C24_Witness ==
  /\ cache_size = 3
  /\ call.fn = "_add_to_cache"
  /\ call.accession = AccDX
  /\ [i \in 1..Len(cache) |-> cache[i].key] = <<AccUS, AccCT, AccDX>>
  /\ \E i \in 1..Len(logTail) :
       logTail[i] = LogRec("DEBUG", "Evicted %s from cache", <<AccMR>>)

\* A step of _try_match.
LookupStep == call'.fn = "_try_match" /\ (call' /= call \/ cache' /= cache \/ ret' /= ret)

\* C25: every cache hit marks the entry most recently used: when _try_match
\* finds the target in the cache, the entry is at the most recent position
\* afterwards, whether or not the cross-check passes.
C25_CacheHitMarksMostRecent ==
  [][(LookupStep /\ call'.target_acc \in CacheKeys(cache)) =>
       cache'[Len(cache')].key = call'.target_acc]_vars

\* The record without the "_source" key _try_match adds to it.
WithoutSource(data) == [k \in (DOMAIN data) \ {"_source"} |-> data[k]]

\* A search tick that scans the folders and finds the target.
ScanHitStep ==
  /\ SearchStep
  /\ search_target_acc \notin CacheKeys(cache)
  /\ FindInRecentFolders(search_target_acc) /= None

\* The cache holds the scanned record under the target key.
ScanHitCached ==
  /\ search_target_acc \in CacheKeys(cache')
  /\ WithoutSource(CacheGet(cache', search_target_acc))
       = WithoutSource(FindInRecentFolders(search_target_acc))

\* A search tick that finds the target in the cache.
CachedTargetStep == SearchStep /\ search_target_acc \in CacheKeys(cache)

\* The tick's result is the cache entry if it passes the cross-check, else
\* None; no key enters or leaves the cache and nothing is inserted.
ResolvedFromCache ==
  LET data == CacheGet(cache, search_target_acc)
  IN /\ result' = IF NamePasses(ExtractLastName(last_patient_title), Get(data, "_Name"))
                    THEN WithSource(data, SourceCache)
                    ELSE None
     /\ CacheKeys(cache') = CacheKeys(cache)
     /\ \A i \in 1..Len(logTail') : logTail'[i].msg /= "Cached %s"

\* C26: a folder-scan hit for the target is inserted into the cache under
\* the target key whatever the cross-check says, so the cache holds the
\* target after the tick; a tick that finds the target in the cache resolves
\* the candidate from the cache entry alone, without a folder scan and
\* without another insertion; nothing but a search tick changes the cache.
C26_ScanHitCachedBeforeCheck ==
  [][/\ ScanHitStep => ScanHitCached
     /\ CachedTargetStep => ResolvedFromCache
     /\ ~SearchStep => cache' = cache]_vars

\* The second tick of a search whose scan hit failed the cross-check: the
\* target is answered from the cache, and fails the cross-check again.
C26_Witness ==
  /\ tickPc = "sleep"
  /\ search_active
  /\ search_target_acc \in CacheKeys(cache)
  /\ \E i \in 1..Len(logTail) :
       logTail[i].msg = "Cache hit but name mismatch: dicom=%s window=%s"

\* The folders the scan considers: immediate subfolders whose name starts
\* with a digit and contains a period (and whose modification time can be
\* read, without which they cannot be ordered).
Considered ==
  {e \in cache_dir.children :
     /\ e.isdir
     /\ e.statable
     /\ Len(e.name) >= 1
     /\ e.name[1] \in Digits
     /\ "." \in {e.name[i] : i \in 1..Len(e.name)}}

\* The folder's metadata has a patient name and the target's accession.
MatchesTarget(e) ==
  /\ "PatientName" \in DOMAIN e.ds
  /\ ExtractCoreAcc(ExtractFields(e.ds)["Acc"]) = call.target_acc

\* C27: the folder scan considers only subfolders whose name starts with a
\* digit and contains a period, by modification time descending, cut to the
\* first MaxScanFolders. What it returns is the record of a considered
\* folder that matches the target, with fewer than MaxScanFolders considered
\* folders newer than it and no matching considered folder newer than it;
\* it returns nothing only if every matching considered folder has
\* MaxScanFolders other considered folders at least as new.
C27_ScanReturnsFirstMatchWithinCut ==
  (call.fn = "_find_in_recent_folders" /\ ret /= NoReturn /\ cache_dir.state = "ok") =>
    IF ret.value = None
      THEN \A e \in Considered :
             MatchesTarget(e) =>
               Cardinality({f \in Considered \ {e} : f.mtime >= e.mtime}) >= MaxScanFolders
      ELSE \E e \in Considered :
             /\ MatchesTarget(e)
             /\ ret.value = ExtractFields(e.ds)
             /\ Cardinality({f \in Considered : f.mtime > e.mtime}) < MaxScanFolders
             /\ \A f \in Considered : MatchesTarget(f) => f.mtime <= e.mtime

\* The scan returned a match although more folders are considered than the
\* cut admits, another considered folder matches with a different record,
\* and a child that is not considered holds the accession as well.
C27_Witness ==
  /\ call.fn = "_find_in_recent_folders"
  /\ cache_dir.state = "ok"
  /\ ret /= NoReturn
  /\ ret.value /= None
  /\ Cardinality(Considered) > MaxScanFolders
  /\ \E e \in Considered :
       /\ MatchesTarget(e)
       /\ ret.value /= ExtractFields(e.ds)
  /\ \E e \in cache_dir.children \ Considered : MatchesTarget(e)

\* The token that follows the first "SingleAccession" of a line, when there
\* is one and it is not the placeholder "-".
SingleToken(fields) ==
  LET at == {i \in 1..(Len(fields) - 1) : fields[i] = SingleAccession}
  IN IF at /= {} /\ fields[Min(at) + 1] /= <<"-">>
       THEN <<fields[Min(at) + 1]>>
       ELSE << >>

\* The tokens of accession shape of a line, in order.
ShapedTokens(fields) == SelectSeq(fields, IsAccessionShape)

\* The signal of a line: the SingleAccession value, else the first token of
\* accession shape; << >> when the line has neither.
Signal(fields) ==
  IF SingleToken(fields) /= << >> THEN SingleToken(fields)
  ELSE IF ShapedTokens(fields) /= << >> THEN <<ShapedTokens(fields)[1]>>
  ELSE << >>

\* The lines of the log that carry a signal.
SignalLines == {i \in 1..Len(psone_log.lines) : Signal(psone_log.lines[i]) /= << >>}

ParseReturned == call.fn = "_parse_psone_log" /\ ret /= NoReturn

\* C28: log parsing returns the normalized accession of the most recent line
\* that carries a signal, the SingleAccession value before a token of
\* accession shape, lines without signal skipped; and '' is returned only
\* when no line has a signal or the file cannot be read.
C28_ParseReturnsNewestSignalEmptyOnlyWithout ==
  ParseReturned =>
    /\ ret.value = IF logReadable /\ SignalLines /= {}
                     THEN ExtractCoreAcc(Signal(psone_log.lines[Max(SignalLines)])[1])
                     ELSE EmptyStr
    /\ ret.value = EmptyStr => (~logReadable \/ SignalLines = {})

\* C28 (amended): log parsing returns the normalized accession of the most
\* recent line that carries a signal, the value after the line's first
\* SingleAccession (unless it is "-") before the first token of accession
\* shape, lines without signal skipped; '' is returned when no line has a
\* signal, when the file cannot be read, and when the value of the most
\* recent signal normalizes to '' ("N/A").
C28_ParseReturnsNewestSignal ==
  ParseReturned =>
    ret.value = IF logReadable /\ SignalLines /= {}
                  THEN ExtractCoreAcc(Signal(psone_log.lines[Max(SignalLines)])[1])
                  ELSE EmptyStr

\* A readable log whose newest line says "SingleAccession N/A" after a line
\* with an accession: '' is returned.
C28_Witness ==
  /\ ParseReturned
  /\ logReadable
  /\ psone_log.lines = <<LineSingleCT, LineSingleNA>>
  /\ ret.value = EmptyStr

ExtractReturned == call.fn = "_extract_fields" /\ ret /= NoReturn

\* The keywords of the study description in the order they are tested:
\* substrings, whole words, and the code they stand for.
KeywordRules ==
  <<[subs |-> {<<"P", "E", "T">>, <<"F", "D", "G">>}, words |-> {}, code |-> <<"P", "T">>],
    [subs |-> {}, words |-> {<<"C", "T">>}, code |-> <<"C", "T">>],
    [subs |-> {<<"M", "R", "I">>}, words |-> {<<"M", "R">>}, code |-> <<"M", "R">>],
    [subs |-> {<<"U", "L", "T", "R", "A", "S", "O", "U", "N", "D">>}, words |-> {<<"U", "S">>}, code |-> <<"U", "S">>],
    [subs |-> {<<"X", "-", "R", "A", "Y">>, <<"X", "R", "A", "Y">>, <<"R", "A", "D", "I", "O", "G", "R", "A", "P", "H">>}, words |-> {}, code |-> <<"D", "X">>],
    [subs |-> {<<"M", "A", "M", "M", "O">>}, words |-> {}, code |-> <<"M", "G">>],
    [subs |-> {<<"N", "U", "C", "L", "E", "A", "R">>, <<"S", "P", "E", "C", "T">>}, words |-> {}, code |-> <<"N", "M">>],
    [subs |-> {<<"F", "L", "U", "O", "R", "O">>, <<"A", "N", "G", "I", "O">>}, words |-> {}, code |-> <<"X", "A">>]>>

\* The rules whose keyword the description holds, case ignored.
KeywordHits(desc) ==
  {i \in 1..Len(KeywordRules) :
     \/ \E k \in KeywordRules[i].subs : Contains(k, Upper(desc))
     \/ \E k \in KeywordRules[i].words : ContainsWord(k, Upper(desc))}

\* The clinical codes embedded in the accession as "-<code>" followed by
\* "_", "-" or the end: the positions of their dashes.
EmbeddedCodes(acc) ==
  {i \in 1..(Len(acc) - 2) :
     /\ acc[i] = "-"
     /\ SubSeq(acc, i + 1, i + 2) \in ClinicalModalities
     /\ (i + 2 = Len(acc) \/ acc[i + 3] \in {"_", "-"})}

\* The fallback chain: the first step that succeeds gives the modality.
Chain(tag, acc, desc) ==
  IF tag \in ClinicalModalities THEN tag
  ELSE IF EmbeddedCodes(acc) /= {}
    THEN SubSeq(acc, Min(EmbeddedCodes(acc)) + 1, Min(EmbeddedCodes(acc)) + 2)
  ELSE IF desc /= EmptyStr /\ desc /= NotAvailable /\ KeywordHits(desc) /= {}
    THEN KeywordRules[Min(KeywordHits(desc))].code
  ELSE tag

\* The value of a tag as the chain gets it: blanks stripped, the default
\* when the tag is missing.
TagValue(ds, tag, default) == IF tag \in DOMAIN ds THEN Strip(ds[tag]) ELSE default

\* C29: modality resolution applies its fallback chain in order, first
\* success wins: the file's tag if it is a clinical code; else a clinical
\* code embedded in the accession; else a keyword of the description in the
\* order PET/FDG, CT, MRI/MR, ULTRASOUND/US, X-RAY/XRAY/RADIOGRAPH, MAMMO,
\* NUCLEAR/SPECT, FLUORO/ANGIO; else the tag unchanged.
C29_ModalityFollowsFallbackChain ==
  ExtractReturned =>
    ret.value["Mod"] = Chain(TagValue(call.ds, "Modality", <<"-", "-">>),
                             TagValue(call.ds, "AccessionNumber", NotAvailable),
                             TagValue(call.ds, "StudyDescription", NotAvailable))

\* Tag "SR", accession "RAD-1-MR", description "PET CT WHOLE BODY": the
\* accession decides and the modality is "MR".
C29_Witness ==
  /\ ExtractReturned
  /\ Get(call.ds, "Modality") = <<"S", "R">>
  /\ Get(call.ds, "AccessionNumber") = <<"R", "A", "D", "-", "1", "-", "M", "R">>
  /\ Get(call.ds, "StudyDescription") = <<"P", "E", "T", " ", "C", "T", " ", "W", "H", "O", "L", "E", " ", "B", "O", "D", "Y">>
  /\ ret.value["Mod"] = <<"M", "R">>

\* The values of a normalized Sex field.
SexCodes == {<<"M">>, <<"F">>, <<"O">>, <<"U">>}

\* C30: the Sex field of every extracted record, and of every published
\* document that carries a Sex key, is one of M, F, O, U.
C30_SexIsNormalized ==
  ExtractReturned =>
    /\ ret.value["Sex"] \in SexCodes
    /\ "Sex" \in DOMAIN WriteState(ret.value) => WriteState(ret.value)["Sex"] \in SexCodes


\* _write_state has returned.
WriteReturned == call.fn = "_write_state" /\ ret /= NoReturn

\* The positions of s that hold no control character.
Printable(s) == {i \in 1..Len(s) : s[i] /= CTL}

\* v is s with its control characters removed: the other characters of s,
\* in their order.
IsStripped(v, s) ==
  /\ Len(v) = Cardinality(Printable(s))
  /\ \A i \in Printable(s) : v[Cardinality({j \in Printable(s) : j <= i})] = s[i]

\* C31: after a publish the state file exists and holds exactly the allowed
\* keys whose field in the record is present and non-empty, each with the
\* field's value less its control characters; no other key, no null, and
\* for a record without such a field the empty document {}.
C31_PublishWritesNonEmptyAllowedFields ==
  WriteReturned =>
    /\ state_file /= NoFile
    /\ DOMAIN state_file =
         {k \in AllowedKeys \cap DOMAIN call.data : call.data[k] /= EmptyStr}
    /\ \A k \in DOMAIN state_file : IsStripped(state_file[k], call.data[k])
    /\ (\A k \in AllowedKeys : Get(call.data, k) = EmptyStr) => state_file = EmptyDoc

\* C31 witness: a record with a control character in Acc, an empty Sex, no
\* StudyDesc and a patient name was published.
C31_Witness ==
  /\ WriteReturned
  /\ DOMAIN call.data = {"Acc", "Sex", "_Name"}
  /\ call.data["Acc"] = <<"A", CTL, "B">>
  /\ call.data["Sex"] = EmptyStr
  /\ call.data["_Name"] = <<"A">>
  /\ state_file = [k \in {"Acc"} |-> <<"A", "B">>]


\* The tick began idle, read a label with the leading name component of the
\* label before, and the vendor log is as the fallback poll before this
\* tick's found it.
QuietTick ==
  /\ call.fn = "tick"
  /\ tickPc \in {"poll", "search", "sleep"}
  /\ call.quiet
  /\ LogStamp = call.log

\* C32: in a tick that begins idle, in which the window label keeps its
\* leading name component and the vendor log keeps its modification time,
\* no step (check_patient_safety, the fallback poll, continue_search, the
\* watchdog thread) changes the search state, the cache or the state file;
\* a lock stays locked and published.
C32_IdleTickChangesNothing ==
  [][QuietTick' => Snapshot' = Snapshot]_vars

\* C32 witness: a tick that began with a lock published has run
\* continue_search with the window label and the log unchanged.
C32_Witness ==
  /\ QuietTick
  /\ tickPc = "sleep"
  /\ current_locked_acc /= EmptyStr
  /\ PublishedNonEmpty
  /\ last_patient_title /= EmptyStr


\* A process with this PID exists.
IsLive(pid) ==
  \/ pid \in InstancePids /\ instances[pid] \in AlivePcs
  \/ pid = OtherPid /\ others /= "dead"

\* The lock file holds the PID of a live process.
HoldsLivePid ==
  /\ lock_file.exists
  /\ ParsePid(lock_file.text).ok
  /\ IsLive(ParsePid(lock_file.text).pid)

\* C33: _acquire_lock exits and leaves the lock file as it is exactly when
\* the file holds the PID of a live process; otherwise (no file, a dead
\* PID, text that is no number) it goes on to write, and the write leaves
\* the caller's PID in the file; _release_lock leaves no lock file, whether
\* or not there was one.
C33_AcquireWritesUnlessLivePid ==
  [][\A p \in InstancePids :
       /\ (instances[p] = "check" /\ instances'[p] \in {"exited", "write"}) =>
            /\ lock_file' = lock_file
            /\ instances'[p] = "exited" <=> HoldsLivePid
       /\ (instances[p] = "write" /\ instances'[p] = "running") =>
            lock_file' = LockOf(p)
       /\ (instances[p] = "running" /\ instances'[p] = "stopped") =>
            lock_file' = NoLock]_vars


\* The service processes that hold the lock and run the tick loop.
RunningInstances == {p \in InstancePids : instances[p] = "running"}

\* C36: at no time do two service processes run the tick loop, however the
\* checks and the writes of the lock file of starting processes interleave.
C36_AtMostOneInstanceRuns ==
  Cardinality(RunningInstances) <= 1


\* main has run its start-up.
MainReturned == call.fn = "main" /\ ret /= NoReturn

\* C37: for every configuration main constructs the monitor with the
\* configured search timeout, cache capacity, scan limit and cache
\* directory and reaches the tick loop, and with a log path configured the
\* log on_psone_log_changed reads is that file, in the directory the
\* observer watches.
C37_StartupUsesConfiguration ==
  MainReturned =>
    /\ ret.value.at = "loop"
    /\ ret.value.monitor.search_timeout = call.cfg.search_timeout
    /\ ret.value.monitor.cache_size = call.cfg.cache_size
    /\ ret.value.monitor.max_scan_folders = call.cfg.max_scan_folders
    /\ ret.value.monitor.cache_dir = call.cfg.dicom_cache_directory
    /\ Dirname(ret.value.read) = ret.value.watched
    /\ call.cfg.perf_log_path /= << >> => ret.value.read = call.cfg.perf_log_path


\* The time since the search started.
Elapsed == now - search_start

\* The search that was running is over or has given way to another.
SearchEnded ==
  \/ ~search_active'
  \/ search_target_acc' /= search_target_acc
  \/ search_start' /= search_start

\* C34: a tick whose continue_search finds the elapsed time above the
\* timeout ends the search, and no tick, completed or cut short by a
\* failing publish, ends with a search running past its timeout; within the
\* timeout a search ends only by a lock, by a reset or by a new trigger
\* that starts the search for another accession.
C34_SearchEndsByTimeout ==
  [][/\ (tickPc = "search" /\ tickPc' = "sleep" /\ search_active
           /\ Elapsed > SearchTimeout) => ~search_active'
     /\ (tickPc' = "sleep" /\ search_active') => Elapsed' <= SearchTimeout
     /\ (search_active /\ Elapsed <= SearchTimeout /\ SearchEnded) =>
          \/ tickPc = "search" /\ ~search_active'
               /\ current_locked_acc' = search_target_acc
          \/ reset_calls' /= << >>
          \/ search_active' /\ search_target_acc' /= search_target_acc
               /\ search_start' = now]_vars

\* C34 witness: a search that matched while the publish raised went on and
\* was ended by the timeout.
C34_Witness ==
  /\ tickPc = "sleep"
  /\ ~search_active
  /\ current_locked_acc /= EmptyStr
  /\ current_locked_acc = search_target_acc
  /\ \E i \in 1..Len(logTail) : logTail[i].msg = "Search timed out for %s"


\* C35: every entry of the LRU cache is filed under a non-empty key that is
\* the core accession of its record, and its record carries a patient name
\* read from the dataset, not the placeholder "Unknown".
C35_CacheEntriesMatchTheirKey ==
  \A i \in 1..Len(cache) :
    /\ cache[i].key /= EmptyStr
    /\ ExtractCoreAcc(Get(cache[i].data, "Acc")) = cache[i].key
    /\ "_Name" \in DOMAIN cache[i].data
    /\ cache[i].data["_Name"] /= UnknownName

\* C35 witness: the newest folder has the accession searched and no patient
\* name; the cache holds the older study, whose accession carries a split
\* suffix, filed under the core accession.
C35_Witness ==
  /\ Len(folders) = 2
  /\ folders[1] = DsNoName
  /\ Len(cache) = 1
  /\ cache[1].key = AccCT
  /\ cache[1].data["Acc"] = AccCTSplit
  /\ cache[1].data["_Name"] = NameDoe

====
